---- MODULE Spec2Model ----
(***************************************************************************)
(* A model of the policy-as-code backend: the iterative rule pipeline      *)
(* (IterativePipeline), the sandbox validator (DaytonaValidator), the      *)
(* rules store (RulesStorage) and the rule executor (RulesExecutor).       *)
(*                                                                         *)
(* Strings are modelled as sequences of tokens: <<>> is the empty string,  *)
(* the token " " is white space, includes() is token membership and trim() *)
(* drops leading and trailing white space tokens.  An absent (undefined)   *)
(* optional string is the one-token value Undefined.  Timestamps and log   *)
(* output are left out.                                                    *)
(***************************************************************************)
EXTENDS Integers, Sequences, FiniteSets, TLC

----------------------------------------------------------------------------
(* Strings *)

Undefined == <<"<undefined>">>

Truthy(s) == s # Undefined /\ s # <<>>

\* JavaScript a || b on optional strings
Or(a, b) == IF Truthy(a) THEN a ELSE b

\* JavaScript a ?? b on optional strings
Coalesce(a, b) == IF a = Undefined THEN b ELSE a

RECURSIVE TrimStart(_)
TrimStart(s) == IF s # <<>> /\ Head(s) = " " THEN TrimStart(Tail(s)) ELSE s

RECURSIVE TrimEnd(_)
TrimEnd(s) ==
    IF s # <<>> /\ s[Len(s)] = " " THEN TrimEnd(SubSeq(s, 1, Len(s) - 1)) ELSE s

Trim(s) == TrimEnd(TrimStart(s))

Includes(s, tok) == \E i \in DOMAIN s : s[i] = tok

\* String.prototype.indexOf(tok, from) on token positions (1-based); 0 is "-1"
IndexOf(s, tok, from) ==
    IF \E i \in from..Len(s) : s[i] = tok
    THEN CHOOSE i \in from..Len(s) :
            s[i] = tok /\ \A j \in from..(i - 1) : s[j] # tok
    ELSE 0

\* String.prototype.toLowerCase on one token
LowerToken(tok) ==
    CASE tok = "IMPORT OS" -> "import os"
      [] tok = "Import Subprocess" -> "import subprocess"
      [] tok = "EVAL(" -> "eval("
      [] tok = "Meridian" -> "meridian"
      [] tok = "ACME" -> "acme"
      [] tok = "Corp" -> "corp"
      [] OTHER -> tok

toLowerCase(s) == [i \in DOMAIN s |-> LowerToken(s[i])]

----------------------------------------------------------------------------
(* DaytonaValidator: the static screen *)

DANGEROUS_SNIPPETS ==
    << "import os", "import subprocess", "from subprocess", "open(", "exec(",
       "eval(", "__import__", "os.system", "sys.stdout", "sys.stderr" >>

\* The mutant reports the last matching entry of the denylist.
checkSecurityLastMatch(code) ==
    LET lowerCode == toLowerCase(code)
        hits == { k \in DOMAIN DANGEROUS_SNIPPETS :
                    Includes(lowerCode, LowerToken(DANGEROUS_SNIPPETS[k])) }
    IN  IF hits # {}
        THEN LET k == CHOOSE h \in hits : \A g \in hits : h >= g
             IN  [ safe |-> FALSE,
                   reason |-> <<"Code contains insecure pattern: ",
                                DANGEROUS_SNIPPETS[k]>> ]
        ELSE [safe |-> TRUE, reason |-> Undefined]

\* The mutant reports every code as safe.
checkSecurityNoScreen(code) == [safe |-> TRUE, reason |-> Undefined]

checkSecurity(code) ==
    LET lowerCode == toLowerCase(code)
        hits == { k \in DOMAIN DANGEROUS_SNIPPETS :
                    Includes(lowerCode, LowerToken(DANGEROUS_SNIPPETS[k])) }
    IN  IF hits # {}
        THEN LET k == CHOOSE h \in hits : \A g \in hits : h <= g
             IN  [ safe |-> FALSE,
                   reason |-> <<"Code contains insecure pattern: ",
                                DANGEROUS_SNIPPETS[k]>> ]
        ELSE [safe |-> TRUE, reason |-> Undefined]

----------------------------------------------------------------------------
(* DaytonaValidator: validation results and the two sandbox phases *)

\* The mutant reports every failure under error as well.
VResultErrorToo(passed, field, value) ==
    [ passed |-> passed,
      security_issue |-> IF field = "security_issue" THEN value ELSE Undefined,
      syntax_error |-> IF field = "syntax_error" THEN value ELSE Undefined,
      runtime_error |-> IF field = "runtime_error" THEN value ELSE Undefined,
      test_failure |-> IF field = "test_failure" THEN value ELSE Undefined,
      error |-> IF field = "error" \/ (~passed /\ field # "none")
                THEN value ELSE Undefined,
      test_output |-> IF field = "test_output" THEN value ELSE Undefined ]

\* A ValidationResult; fields the code leaves out are Undefined.
VResult(passed, field, value) ==
    [ passed |-> passed,
      security_issue |-> IF field = "security_issue" THEN value ELSE Undefined,
      syntax_error |-> IF field = "syntax_error" THEN value ELSE Undefined,
      runtime_error |-> IF field = "runtime_error" THEN value ELSE Undefined,
      test_failure |-> IF field = "test_failure" THEN value ELSE Undefined,
      error |-> IF field = "error" THEN value ELSE Undefined,
      test_output |-> IF field = "test_output" THEN value ELSE Undefined ]

\* What sandbox.process.codeRun answers: it throws, or it returns an exit
\* code and the captured stdout.
Threw(msg) == [threw |-> TRUE, message |-> msg, exitCode |-> 0, stdout |-> <<>>]
Ran(exitCode, stdout) ==
    [threw |-> FALSE, message |-> <<>>, exitCode |-> exitCode, stdout |-> stdout]

\* checkSyntax on a run that returned: {passed, error}
checkSyntax(run) ==
    LET isValid == Includes(run.stdout, "SYNTAX_VALID")
    IN  [ passed |-> isValid,
          error |-> IF isValid THEN Undefined
                    ELSE Or(Trim(run.stdout), <<"Unknown syntax error">>) ]

RULE_OUTPUT == "__RULE_OUTPUT__"
RULE_OUTPUT_END == "__RULE_OUTPUT_END__"

\* Null is extractBetween's null
Null == <<"<null>">>

extractBetween(content, start, end) ==
    LET startIndex == IndexOf(content, start, 1)
    IN  IF startIndex = 0 THEN Null
        ELSE LET endIndex == IndexOf(content, end, startIndex + 1)
             IN  IF endIndex = 0 THEN Null
                 ELSE Trim(SubSeq(content, startIndex + 1, endIndex - 1))

\* JSON.parse and the test typeof parsed.allowed === "boolean":
\* "throws" (no JSON, or a JSON null whose property read throws),
\* "boolean" or "other".
ParsedAllowed(output) ==
    IF Len(output) # 1 THEN "throws"
    ELSE CASE output[1] = "{allowed:true}" -> "boolean"
           [] output[1] = "{allowed:false}" -> "boolean"
           [] output[1] = "{}" -> "other"
           [] output[1] = "{allowed:1}" -> "other"
           [] OTHER -> "throws"

\* runTests on a run that returned
runTests(run) ==
    IF run.exitCode # 0
    THEN VResult(FALSE, "runtime_error",
                 Trim(Or(run.stdout, <<"Runtime error while executing rule">>)))
    ELSE LET output == extractBetween(run.stdout, RULE_OUTPUT, RULE_OUTPUT_END)
         IN  IF output = Null \/ output = <<>>
             THEN VResult(FALSE, "test_failure",
                          <<"Rule execution did not return structured output">>)
             ELSE CASE ParsedAllowed(output) = "throws" ->
                         VResult(FALSE, "runtime_error",
                                 <<"Failed to parse rule output: ">>)
                    [] ParsedAllowed(output) = "other" ->
                         VResult(FALSE, "test_failure",
                                 <<"Rule output missing boolean 'allowed'">>)
                    [] OTHER -> VResult(TRUE, "test_output", output)

----------------------------------------------------------------------------
(* IterativePipeline: feedback for the generator *)

\* The mutant has no message for a result without a truthy field.
createFeedbackNoDefault(validation) ==
    IF Truthy(validation.syntax_error)
    THEN <<"Fix syntax issues: ">> \o validation.syntax_error
    ELSE IF Truthy(validation.runtime_error)
    THEN <<"Runtime failure: ">> \o validation.runtime_error
    ELSE IF Truthy(validation.test_failure)
    THEN <<"Logical/test failure: ">> \o validation.test_failure
    ELSE IF Truthy(validation.security_issue)
    THEN <<"Security violation: ">> \o validation.security_issue
    ELSE IF Truthy(validation.error)
    THEN <<"General validation error: ">> \o validation.error
    ELSE <<>>

createFeedbackForLLM(validation) ==
    LET f1 == IF Truthy(validation.syntax_error)
              THEN <<"Fix syntax issues: ">> \o validation.syntax_error
              ELSE <<>>
        f2 == IF Truthy(validation.runtime_error)
              THEN <<"Runtime failure: ">> \o validation.runtime_error
              ELSE <<>>
        f3 == IF Truthy(validation.test_failure)
              THEN <<"Logical/test failure: ">> \o validation.test_failure
              ELSE <<>>
        f4 == IF Truthy(validation.security_issue)
              THEN <<"Security violation: ">> \o validation.security_issue
              ELSE <<>>
        feedback == f1 \o f2 \o f3 \o f4
        f5 == IF Truthy(validation.error) /\ feedback = <<>>
              THEN <<"General validation error: ">> \o validation.error
              ELSE <<>>
    IN  Or(feedback \o f5,
           <<"Validation failed for unspecified reasons. Re-check rule robustness.">>)

----------------------------------------------------------------------------
(* Bounds and input domains *)

\* The largest maxIterationsPerRule option a pipeline is constructed with.
MaxIterations == 3

\* The longest list of drafts the generator returns on the initial call.
MaxDrafts == 2

CodeSafe == <<"def rule(employee, security, trade_date):", "return {...}">>
CodeUnsafe == <<"IMPORT OS", "def rule(employee, security, trade_date):">>

\* A Rule as convertStructuredRule builds it
Draft(id, name, ref, code, roles) ==
    [ rule_id |-> id, rule_name |-> name, policy_reference |-> ref,
      python_code |-> code, applies_to_roles |-> roles, active |-> TRUE,
      generation_attempt |-> 1, validation_history |-> <<>> ]

\* The rules the generator answers with
DraftPool ==
    { Draft("earnings_blackout", "Earnings blackout", "Section 1", CodeSafe, {}),
      Draft("preapproval", "Pre-approval", "Section 2", CodeUnsafe, {"Analyst"}) }

\* The failure modes of the sandbox service: a failing create, a failing
\* delete, a run that throws, and the faulty answers of the two runs
FaultKinds ==
    { "create", "delete", "transport", "syntax_error", "syntax_silent",
      "runtime_trace", "runtime_blank", "runtime_silent", "contract_nomarker",
      "contract_empty", "contract_noallowed", "contract_null",
      "contract_notjson" }

SandboxError == <<"sandbox request failed">>

\* Answers of the syntax run, each with the failure mode it belongs to
SyntaxRuns ==
    { [fault |-> "none", run |-> Ran(0, <<"SYNTAX_VALID">>)],
      [fault |-> "syntax_error",
       run |-> Ran(1, <<"SYNTAX_ERROR:", "invalid syntax", " ">>)],
      [fault |-> "syntax_silent", run |-> Ran(1, <<>>)],
      [fault |-> "transport", run |-> Threw(SandboxError)] }

\* Answers of the functional run
TestRuns ==
    { [fault |-> "none",
       run |-> Ran(0, <<"log", RULE_OUTPUT, " ", "{allowed:false}", " ", RULE_OUTPUT_END>>)],
      [fault |-> "runtime_trace", run |-> Ran(1, <<"Traceback">>)],
      [fault |-> "runtime_blank", run |-> Ran(1, <<" ">>)],
      [fault |-> "runtime_silent", run |-> Ran(1, <<>>)],
      [fault |-> "contract_nomarker", run |-> Ran(0, <<"print">>)],
      [fault |-> "contract_empty", run |-> Ran(0, <<RULE_OUTPUT, RULE_OUTPUT_END>>)],
      [fault |-> "contract_noallowed",
       run |-> Ran(0, <<RULE_OUTPUT, "{}", RULE_OUTPUT_END>>)],
      [fault |-> "contract_null",
       run |-> Ran(0, <<RULE_OUTPUT, "null", RULE_OUTPUT_END>>)],
      [fault |-> "contract_notjson",
       run |-> Ran(0, <<RULE_OUTPUT, "{'allowed': True}", RULE_OUTPUT_END>>)],
      [fault |-> "transport", run |-> Threw(SandboxError)] }

----------------------------------------------------------------------------
(* State *)

VARIABLES
    pc,                     \* where the ingestion task stands
    maxIterationsPerRule,   \* IterativePipeline.maxIterationsPerRule
    preserveSandbox,        \* DAYTONA_PRESERVE_SANDBOXES, read at module load
    sandboxFaults,          \* the failure modes the sandbox service shows
    ruleFaults,             \* the failure modes the stored rules show when run
    liveSandboxes,          \* sandboxes that exist at the sandbox service
    initialRule,            \* validateAndRefineRule: its argument
    currentRule,            \* validateAndRefineRule: currentRule
    attempt,                \* validateAndRefineRule: attempt
    context,                \* validateAndRefineRule: the last GenerationContext
    regenerated,            \* validateAndRefineRule: how the await of regenerateRule ended
    loopResult,             \* validateAndRefineRule: what it returned
    sandbox,                \* validateRule: sandbox (TRUE: a handle, FALSE: null)
    validationResult,       \* validateRule: what it returns
    validatorCalls,         \* calls of validateRule in this refinement
    sandboxOps,             \* sandbox client calls of the current validateRule
    execResult,             \* runTests: execResult, what the functional run answered
    request,                \* the body of the ingest request
    firmName,               \* processPolicy: firmName
    initialRules,           \* processPolicy: initialRules
    ruleIdx,                \* processPolicy: position of the for loop
    validatedRules,         \* processPolicy: validatedRules
    totalIterations,        \* processPolicy: totalIterations
    saveData,               \* saveRules: data
    ingestResponse,         \* what the ingest endpoint answered
    files,                  \* the documents of the rules directory, by file name
    pipelineCache,          \* the cache of the pipeline's RulesStorage
    executorCache,          \* the cache of the executor's RulesStorage
    cpc,                    \* where the compliance check stands
    checkFirm,              \* checkCompliance: firmName
    employeeRole,           \* checkCompliance: employee.role
    stored,                 \* checkCompliance: stored
    checkIdx,               \* checkCompliance: position of the for loop
    response,               \* checkCompliance: response
    execLog,                \* the rule executions of this check, in order
    fresh,                  \* the bundles an up-to-date load may return
    nameArg,                \* the firm name getFilePath is called with
    nameKey,                \* what normalizeFirmName returned for it
    saveCalls,              \* concurrent saveRules calls: where each stands, its data
    returned,               \* the saveRules calls that returned, in order
    rpc,                    \* where the compliance-check endpoint stands
    checkRequest,           \* the body of the compliance-check request
    checkAnswer,            \* what the compliance-check endpoint answered
    routeCalls,             \* the collaborators the endpoint has called, in order
    pythonBinEnv,           \* process.env.PYTHON_BIN
    installed,              \* the Python binaries found on this machine
    timeoutMs,              \* runPythonCode: options.timeoutMs
    bridgePc,               \* where runPythonCode stands
    candidates,             \* runPythonCode: candidates
    candidateIdx,           \* runPythonCode: position of the for loop
    spawned,                \* the binaries spawned by this call, in order
    bridgeOutcome,          \* how the promise of runPythonCode settled
    child,                  \* executeWithPythonBin: child, stdout, stderr
    timeoutHandle,          \* executeWithPythonBin: timeoutHandle
    promise                 \* executeWithPythonBin: the promise it returned

refineVars == <<initialRule, currentRule, attempt, context, regenerated, loopResult,
                validatorCalls>>
validatorVars == <<sandbox, validationResult, sandboxOps, execResult>>
nameVars == <<nameArg, nameKey>>

optionVars == <<maxIterationsPerRule, preserveSandbox, sandboxFaults, ruleFaults>>

callVars == <<saveCalls, returned>>
routeVars == <<rpc, checkRequest, checkAnswer, routeCalls>>
bridgeVars == <<pythonBinEnv, installed, timeoutMs, bridgePc, candidates,
                candidateIdx, spawned, bridgeOutcome, child, timeoutHandle,
                promise>>
sideVars == <<callVars, routeVars, bridgeVars>>

envVars == <<optionVars, nameVars, sideVars>>

policyVars == <<request, firmName, initialRules, ruleIdx, validatedRules,
                totalIterations, saveData, ingestResponse>>
storeVars == <<files, pipelineCache>>
checkLocals == <<executorCache, cpc, checkFirm, employeeRole, stored, checkIdx,
                 response, execLog>>
checkVars == <<checkLocals, fresh>>

\* What the refinement of one rule leaves alone
outerVars == <<policyVars, storeVars, checkVars>>

vars == <<pc, envVars, liveSandboxes, refineVars, validatorVars, policyVars,
          storeVars, checkVars>>

NoResult == [validated |-> FALSE, rule |-> <<>>, iterations |-> -1]
NoValidation == VResult(FALSE, "none", Undefined)
NoRun == [threw |-> FALSE, message |-> <<>>, exitCode |-> -1, stdout |-> <<>>]
NoContext == [code |-> Undefined, error |-> Undefined, test_results |-> Undefined]

\* How an awaited call of the generator ends: with a list of rules, or with
\* an exception
Generated(rules) == [threw |-> FALSE, rules |-> rules]
GeneratorThrew == [threw |-> TRUE, rules |-> <<>>]
NotAsked == Generated(<<>>)

----------------------------------------------------------------------------
(* DaytonaValidator.validateRule, one action per await *)

\* The mutant deletes whether or not there is a handle and a preserve flag.
AfterFinallyAlwaysDelete(handle) == "delete"

\* The finally block: with a handle and without the preserve flag the call
\* awaits client.delete; otherwise it returns at once.
AfterFinally(handle) ==
    IF handle /\ ~preserveSandbox THEN "delete" ELSE "recordAttempt"

\* client.create answers
SandboxCreate ==
    /\ pc = "create"
    /\ \/ /\ sandbox' = TRUE
          /\ liveSandboxes' = liveSandboxes + 1
          /\ pc' = "syntax"
          /\ UNCHANGED validationResult
       \/ /\ "create" \in sandboxFaults
          /\ sandbox' = FALSE
          /\ validationResult' = VResult(FALSE, "error", SandboxError)
          /\ pc' = AfterFinally(FALSE)
          /\ UNCHANGED liveSandboxes
    /\ sandboxOps' = Append(sandboxOps, "create")
    /\ UNCHANGED <<envVars, refineVars, execResult, outerVars>>

\* the syntax run answers
SandboxSyntax ==
    /\ pc = "syntax"
    /\ \E a \in SyntaxRuns :
          /\ a.fault \in sandboxFaults \cup {"none"}
          /\ IF a.run.threw
             THEN /\ validationResult' = VResult(FALSE, "error", a.run.message)
                  /\ pc' = AfterFinally(sandbox)
             ELSE LET syntaxResult == checkSyntax(a.run)
                  IN  IF ~syntaxResult.passed
                      THEN /\ validationResult' =
                                VResult(FALSE, "syntax_error", syntaxResult.error)
                           /\ pc' = AfterFinally(sandbox)
                      ELSE /\ pc' = "tests"
                           /\ UNCHANGED validationResult
    /\ sandboxOps' = Append(sandboxOps, "codeRun")
    /\ UNCHANGED <<envVars, refineVars, sandbox, liveSandboxes, execResult, outerVars>>

\* the functional run answers
SandboxTests ==
    /\ pc = "tests"
    /\ \E a \in TestRuns :
          /\ a.fault \in sandboxFaults \cup {"none"}
          /\ execResult' = a.run
          /\ IF a.run.threw
             THEN validationResult' = VResult(FALSE, "error", a.run.message)
             ELSE validationResult' = runTests(a.run)
    /\ pc' = AfterFinally(sandbox)
    /\ sandboxOps' = Append(sandboxOps, "codeRun")
    /\ UNCHANGED <<envVars, refineVars, sandbox, liveSandboxes, outerVars>>

\* client.delete answers; a failure is logged and swallowed
SandboxDelete ==
    /\ pc = "delete"
    /\ \/ liveSandboxes' = liveSandboxes - 1
       \/ /\ "delete" \in sandboxFaults
          /\ UNCHANGED liveSandboxes
    /\ pc' = "recordAttempt"
    /\ sandboxOps' = Append(sandboxOps, "delete")
    /\ UNCHANGED <<envVars, refineVars, sandbox, validationResult, execResult,
                   outerVars>>

----------------------------------------------------------------------------
(* IterativePipeline.validateAndRefineRule, one action per await *)

\* The consolidated error of a validation result (a || b || c || d || e)
ConsolidatedError(v) ==
    Or(Or(Or(Or(v.error, v.syntax_error), v.runtime_error), v.test_failure),
       v.security_issue)

\* The mutant numbers the attempts from 0.
HistoryEntryFromZero(n, v) ==
    [ attempt_number |-> n - 1,
      passed |-> v.passed,
      error |-> ConsolidatedError(v),
      test_output |-> v.test_output,
      feedback_to_llm |-> IF v.passed THEN Undefined ELSE createFeedbackForLLM(v) ]

HistoryEntry(n, v) ==
    [ attempt_number |-> n,
      passed |-> v.passed,
      error |-> ConsolidatedError(v),
      test_output |-> v.test_output,
      feedback_to_llm |-> IF v.passed THEN Undefined ELSE createFeedbackForLLM(v) ]

\* while (attempt < this.maxIterationsPerRule)
LoopContinues(a) == a < maxIterationsPerRule

\* The mutant allows a regeneration after the last attempt.
AttemptsExhaustedLate(a) == a > maxIterationsPerRule

\* if (attempt >= this.maxIterationsPerRule) break
AttemptsExhausted(a) == a >= maxIterationsPerRule

\* The mutant forgets to count the attempt.
NextAttemptStuck(a) == a

\* attempt += 1
NextAttempt(a) == a + 1

\* The answers of regenerateRule: the lists of at most two rules
RegenerateAnswers ==
    {<<>>} \cup {<<d>> : d \in DraftPool} \cup {<<d, e>> : d \in DraftPool, e \in DraftPool}

\* The mutant goes on with the next iteration.
ContinueLoop == "while"

\* break: the statement after the loop returns
BreakLoop == "refineReturn"

\* The mutant takes the generator's exception for the end of the loop.
ThrowIsSwallowed == "refineReturn"

\* An exception of an awaited call is caught by neither validateAndRefineRule
\* nor processPolicy: it arrives at the catch of the endpoint
Rethrow == "failed"

LoopReturn(validated, rule, iterations) ==
    [validated |-> validated, rule |-> rule, iterations |-> iterations]

\* The mutant leaves the rule's generation_attempt as the generator set it.
StampNothing(rule, n) == rule

\* currentRule.generation_attempt = attempt
StampAttempt(rule, n) == [rule EXCEPT !.generation_attempt = n]

\* The top of the while loop, the call of validateRule and its static screen
WhileLoop ==
    /\ pc = "while"
    /\ IF LoopContinues(attempt)
       THEN /\ attempt' = NextAttempt(attempt)
            /\ currentRule' = StampAttempt(currentRule, attempt')
            /\ validatorCalls' = validatorCalls + 1
            /\ sandboxOps' = <<>>
            /\ execResult' = NoRun
            /\ sandbox' = FALSE
            /\ LET security == checkSecurity(currentRule.python_code)
               IN  IF ~security.safe
                   THEN /\ validationResult' =
                              VResult(FALSE, "security_issue", security.reason)
                        /\ pc' = "recordAttempt"
                   ELSE /\ validationResult' = NoValidation
                        /\ pc' = "create"
            /\ UNCHANGED loopResult
       ELSE /\ loopResult' = LoopReturn(FALSE, currentRule, attempt)
            /\ pc' = "refineReturn"
            /\ UNCHANGED <<attempt, currentRule, validatorCalls, validatorVars>>
    /\ regenerated' = NotAsked
    /\ UNCHANGED <<envVars, liveSandboxes, initialRule, context, outerVars>>

\* validateRule has returned: the history entry, the return or break, and the
\* call of regenerateRule
RecordAttempt ==
    /\ pc = "recordAttempt"
    /\ LET historyEntry == HistoryEntry(attempt, validationResult)
           recorded == [currentRule EXCEPT
                          !.validation_history = Append(@, historyEntry)]
       IN  /\ currentRule' = recorded
           /\ IF validationResult.passed
              THEN /\ loopResult' = LoopReturn(TRUE, recorded, attempt)
                   /\ pc' = "refineReturn"
                   /\ UNCHANGED context
              ELSE IF AttemptsExhausted(attempt)
              THEN /\ loopResult' = LoopReturn(FALSE, recorded, attempt)
                   /\ pc' = BreakLoop
                   /\ UNCHANGED context
              ELSE /\ context' =
                        [ code |-> currentRule.python_code,
                          error |-> Or(ConsolidatedError(validationResult),
                                       <<"Unknown validation error">>),
                          test_results |-> Coalesce(validationResult.test_output,
                                                    <<"No test output">>) ]
                   /\ pc' = "regenerate"
                   /\ UNCHANGED loopResult
    /\ UNCHANGED <<envVars, liveSandboxes, initialRule, attempt, regenerated,
                   validatorCalls, validatorVars, outerVars>>

\* The mutant takes the regenerated rule as the generator built it.
CarryNothing(nextRule, initial, current) ==
    [nextRule EXCEPT !.generation_attempt = attempt]

\* { ...nextRule, rule_id, validation_history, generation_attempt }
CarryForward(nextRule, initial, current) ==
    [ nextRule EXCEPT
        !.rule_id = initial.rule_id,
        !.validation_history = current.validation_history,
        !.generation_attempt = attempt ]

\* regenerateRule answers: it throws, or it returns a list of rules
RegenerateRule ==
    /\ pc = "regenerate"
    /\ \E answer \in {GeneratorThrew} \cup {Generated(rules) : rules \in RegenerateAnswers} :
          /\ regenerated' = answer
          /\ IF answer.threw
             THEN /\ pc' = Rethrow
                  /\ UNCHANGED <<currentRule, loopResult>>
             ELSE IF Len(answer.rules) = 0
             THEN /\ loopResult' = LoopReturn(FALSE, currentRule, attempt)
                  /\ pc' = BreakLoop
                  /\ UNCHANGED currentRule
             ELSE /\ currentRule' = CarryForward(answer.rules[1], initialRule, currentRule)
                  /\ pc' = "while"
                  /\ UNCHANGED loopResult
    /\ UNCHANGED <<envVars, liveSandboxes, initialRule, attempt, context,
                   validatorCalls, validatorVars, outerVars>>

----------------------------------------------------------------------------
(* RulesStorage *)

\* The firm names the routes pass on (they trim the request's firm_name)
FirmNames == { <<"Meridian">>, <<"meridian">> }

\* replace(/\s+/g, "_"): every run of white space tokens becomes one "_"
RECURSIVE CollapseSpaces(_)
CollapseSpaces(s) ==
    IF s = <<>> THEN <<>>
    ELSE IF Head(s) = " "
         THEN <<"_">> \o CollapseSpaces(TrimStart(s))
         ELSE <<Head(s)>> \o CollapseSpaces(Tail(s))

\* The mutant replaces every white space by its own "_".
normalizeEachSpace(name) ==
    [i \in DOMAIN Trim(name) |->
        IF Trim(name)[i] = " " THEN "_" ELSE LowerToken(Trim(name)[i])]

normalizeFirmName(name) == CollapseSpaces(toLowerCase(Trim(name)))

\* No name has been normalized
NoKey == <<"<none>">>
NamesIdle ==
    /\ nameArg = <<>>
    /\ nameKey = NoKey

getFilePath(name) == normalizeFirmName(name) \o <<"_rules.json">>

\* `${year}-${month padded to two digits}` of the clock; the saves of a run
\* fall in one month
PolicyVersion == <<"2026", "-", "11">>

\* The RulesData of saveRules; last_updated is a clock reading and is left
\* out.
RulesData(name, rules, iterations) ==
    [ firm_name |-> name, policy_version |-> PolicyVersion,
      generated_by_llm |-> TRUE,
      total_iterations |-> iterations, rules |-> rules ]

EntryFields ==
    {"attempt_number", "passed", "error", "test_output", "feedback_to_llm"}

\* JSON.stringify leaves out the properties whose value is undefined
OptionalFields == {"error", "test_output", "feedback_to_llm"}

StringifyEntry(e) ==
    [f \in {g \in DOMAIN e : g \notin OptionalFields \/ e[g] # Undefined} |-> e[f]]

StringifyRule(r) ==
    [r EXCEPT !.validation_history =
                 [i \in DOMAIN r.validation_history |->
                    StringifyEntry(r.validation_history[i])]]

JSONstringify(data) ==
    [data EXCEPT !.rules = [i \in DOMAIN data.rules |-> StringifyRule(data.rules[i])]]

\* The mutant reads a property the text does not hold as null.
ParseEntryAbsentIsNull(j) ==
    [f \in EntryFields |-> IF f \in DOMAIN j THEN j[f] ELSE <<"<null>">>]

\* JSON.parse: a property the text does not hold reads as undefined
ParseEntry(j) == [f \in EntryFields |-> IF f \in DOMAIN j THEN j[f] ELSE Undefined]

ParseRule(j) ==
    [j EXCEPT !.validation_history =
                 [i \in DOMAIN j.validation_history |->
                    ParseEntry(j.validation_history[i])]]

JSONparse(text) ==
    [text EXCEPT !.rules = [i \in DOMAIN text.rules |-> ParseRule(text.rules[i])]]

\* A document: its text, and whether the text is all there (a write that has
\* truncated the file and not finished leaves an incomplete text)
Document(text) == [complete |-> TRUE, text |-> text]
Truncated(text) == [complete |-> FALSE, text |-> text]

\* Map.set
MapSet(map, key, value) ==
    [k \in DOMAIN map \cup {key} |-> IF k = key THEN value ELSE map[k]]

\* saveRules up to its await of Bun.write: data is built and the write begins
CallSaveRules(name, rules, iterations) ==
    /\ saveData' = RulesData(name, rules, iterations)
    /\ pc' = "saveOpen"

\* Bun.write opens and truncates the file, or fails before touching it
SaveOpen ==
    /\ pc = "saveOpen"
    /\ \/ /\ files' = MapSet(files, getFilePath(saveData.firm_name),
                             Truncated(JSONstringify(saveData)))
          /\ pc' = "saveWrite"
       \/ /\ pc' = "failed"
          /\ UNCHANGED files
    /\ UNCHANGED <<envVars, liveSandboxes, refineVars, validatorVars, policyVars,
                   pipelineCache, checkVars>>

----------------------------------------------------------------------------
(* The ingest endpoint and IterativePipeline.processPolicy *)

IngestBodies ==
    [ firm_name : {Undefined, <<" ">>, <<" ", "Meridian", " ">>},
      policy_text : {Undefined, <<"Employees cannot trade near earnings.">>} ]

\* The mutant does not trim.
OptionalNoTrim(s) == s

\* body.x?.trim()
OptionalTrim(s) == IF s = Undefined THEN Undefined ELSE Trim(s)

\* The lists of drafts generateRules answers with
RECURSIVE ListsUpTo(_, _)
ListsUpTo(S, n) ==
    IF n = 0 THEN {<<>>}
    ELSE LET shorter == ListsUpTo(S, n - 1)
         IN  shorter \cup {Append(l, x) : l \in {m \in shorter : Len(m) = n - 1}, x \in S}

\* The response of the ingest endpoint
IngestSuccess(rulesData) ==
    [ status |-> "SUCCESS", http |-> 200,
      rules_deployed |-> Len(rulesData.rules),
      total_iterations |-> rulesData.total_iterations,
      rules |-> [i \in DOMAIN rulesData.rules |->
                   LET rule == rulesData.rules[i]
                       n == Len(rule.validation_history)
                   IN  [ rule_name |-> rule.rule_name,
                         attempts |-> rule.generation_attempt,
                         validated |-> IF n = 0 THEN FALSE
                                       ELSE rule.validation_history[n].passed ]] ]

IngestError(code) ==
    [ status |-> "ERROR", http |-> code, rules_deployed |-> 0,
      total_iterations |-> 0, rules |-> <<>> ]

NoResponse == [ status |-> "NONE", http |-> 0, rules_deployed |-> 0,
                total_iterations |-> 0, rules |-> <<>> ]

\* validateAndRefineRule up to its first await
EnterRefine(rule) ==
    /\ initialRule' = rule
    /\ currentRule' = [rule EXCEPT !.validation_history = <<>>]
    /\ attempt' = 0
    /\ validatorCalls' = 0
    /\ pc' = "while"

\* POST /api/policies/ingest: the request is read and processPolicy called
IngestPost ==
    /\ pc = "idle"
    /\ \E body \in IngestBodies :
          LET firm == OptionalTrim(body.firm_name)
              policyText == OptionalTrim(body.policy_text)
          IN  /\ request' = body
              /\ IF ~Truthy(firm) \/ ~Truthy(policyText)
                 THEN /\ ingestResponse' = IngestError(400)
                      /\ pc' = "responded"
                      /\ UNCHANGED firmName
                 ELSE /\ firmName' = firm
                      /\ pc' = "generateRules"
                      /\ UNCHANGED ingestResponse
    /\ UNCHANGED <<envVars, liveSandboxes, refineVars, validatorVars, initialRules,
                   ruleIdx, validatedRules, totalIterations, saveData, storeVars,
                   checkVars>>

\* generateRules answers: it throws, or it returns the drafts; the for loop
\* begins
GenerateRules ==
    /\ pc = "generateRules"
    /\ \/ /\ pc' = Rethrow
          /\ UNCHANGED <<initialRules, ruleIdx, validatedRules, totalIterations,
                         saveData, initialRule, currentRule, attempt,
                         validatorCalls>>
       \/ \E drafts \in ListsUpTo(DraftPool, MaxDrafts) :
             /\ initialRules' = drafts
             /\ validatedRules' = <<>>
             /\ totalIterations' = 0
             /\ IF Len(drafts) = 0
                THEN /\ CallSaveRules(firmName, <<>>, 0)
                     /\ UNCHANGED <<ruleIdx, initialRule, currentRule, attempt,
                                    validatorCalls>>
                ELSE /\ ruleIdx' = 1
                     /\ EnterRefine(drafts[1])
                     /\ UNCHANGED saveData
    /\ UNCHANGED <<envVars, liveSandboxes, context, regenerated, loopResult, validatorVars,
                   request, firmName, ingestResponse, storeVars, checkVars>>

\* The mutant keeps every refined rule.
AcceptedAlways(result) == TRUE

\* if (result.validated) validatedRules.push(result.rule)
Accepted(result) == result.validated

\* The mutant counts the iterations of validated rules only.
AddIterationsIfValidated(total, result) ==
    IF result.validated THEN total + result.iterations ELSE total

\* totalIterations += result.iterations
AddIterations(total, result) == total + result.iterations

\* The mutant puts the rule in front of the list.
Unshift(list, rule) == <<rule>> \o list

\* validatedRules.push(result.rule)
Push(list, rule) == Append(list, rule)

\* The mutant leaves the loop after the first draft.
MoreDraftsNever(idx, drafts) == FALSE

\* for (const rule of initialRules): another draft follows
MoreDrafts(idx, drafts) == idx < Len(drafts)

\* validateAndRefineRule has returned: the body of the for loop, then the
\* next draft or the call of saveRules
ProcessPolicyLoop ==
    /\ pc = "refineReturn"
    /\ LET total == AddIterations(totalIterations, loopResult)
           kept == IF Accepted(loopResult)
                   THEN Push(validatedRules, loopResult.rule)
                   ELSE validatedRules
       IN  /\ totalIterations' = total
           /\ validatedRules' = kept
           /\ IF MoreDrafts(ruleIdx, initialRules)
              THEN /\ ruleIdx' = ruleIdx + 1
                   /\ EnterRefine(initialRules[ruleIdx + 1])
                   /\ UNCHANGED saveData
              ELSE /\ CallSaveRules(firmName, kept, total)
                   /\ UNCHANGED <<ruleIdx, initialRule, currentRule, attempt,
                                  validatorCalls>>
    /\ UNCHANGED <<envVars, liveSandboxes, context, regenerated, loopResult, validatorVars,
                   request, firmName, initialRules, ingestResponse, storeVars,
                   checkVars>>

\* Bun.write completes or fails; on completion saveRules sets the cache and
\* returns, processPolicy returns and the endpoint answers
SaveWrite ==
    /\ pc = "saveWrite"
    /\ \/ /\ files' = MapSet(files, getFilePath(saveData.firm_name),
                             Document(JSONstringify(saveData)))
          /\ pipelineCache' = MapSet(pipelineCache, saveData.firm_name, saveData)
          /\ ingestResponse' = IngestSuccess(saveData)
          /\ fresh' = IF cpc \in {"exists", "text"} /\ checkFirm = saveData.firm_name
                       THEN fresh \cup {saveData}
                       ELSE fresh
          /\ pc' = "responded"
       \/ /\ pc' = "failed"
          /\ UNCHANGED <<files, pipelineCache, ingestResponse, fresh>>
    /\ UNCHANGED <<envVars, liveSandboxes, refineVars, validatorVars, request,
                   firmName, initialRules, ruleIdx, validatedRules, totalIterations,
                   saveData, checkLocals>>

\* The endpoint's catch: HTTP 500
IngestCatch ==
    /\ pc = "failed"
    /\ ingestResponse' = IngestError(500)
    /\ pc' = "responded"
    /\ UNCHANGED <<envVars, liveSandboxes, refineVars, validatorVars, request,
                   firmName, initialRules, ruleIdx, validatedRules, totalIterations,
                   saveData, storeVars, checkVars>>

----------------------------------------------------------------------------
(* RulesExecutor.checkCompliance and the loadRules of its RulesStorage *)

Roles == {"Analyst", "analyst", "Trader"}

\* No bundle is held
NoStored == RulesData(<<>>, <<>>, 0)

\* The mutant answers a denial where there is nothing to evaluate.
NoVerdictDenied == [allowed |-> FALSE, reasons |-> <<>>, policy_refs |-> <<>>,
                    rules_checked |-> <<>>]

\* The response checkCompliance starts from, and answers without a bundle
NoVerdict == [allowed |-> TRUE, reasons |-> <<>>, policy_refs |-> <<>>,
              rules_checked |-> <<>>]

\* The longest list of rules of a stored bundle
MaxRules == 3

\* A rule as a stored document holds it
StoredRule(id, name, ref, roles, active) ==
    [ Draft(id, name, ref, CodeSafe, roles) EXCEPT
        !.active = active,
        !.validation_history =
            << HistoryEntry(1, VResult(TRUE, "test_output", <<"{allowed:false}">>)) >> ]

\* The rules of the stored bundles: one for every role, one for analysts,
\* one switched off in the document
StoredRulePool ==
    { StoredRule("earnings_blackout", "Earnings blackout", "Section 1", {}, TRUE),
      StoredRule("preapproval", "Pre-approval", "Section 2", {"Analyst"}, TRUE),
      StoredRule("lockup", "Lock-up", "Section 3", {}, FALSE) }

\* The failure modes of a rule run by the python bridge
RuleFaultKinds == {"deny", "deny_silent", "bridge", "not_json", "no_allowed", "null"}

\* What runPythonCode answers for a rule, each with its failure mode
RuleRuns ==
    { [fault |-> "none", run |-> Ran(0, <<"{allowed:true}", " ">>)],
      [fault |-> "deny", run |-> Ran(0, <<"{allowed:false,reason}", " ">>)],
      [fault |-> "deny_silent", run |-> Ran(0, <<"{allowed:false}", " ">>)],
      [fault |-> "deny_silent", run |-> Ran(0, <<"{allowed:false,reason:''}", " ">>)],
      [fault |-> "bridge", run |-> Threw(<<"Python exited with code 1: Traceback">>)],
      [fault |-> "not_json", run |-> Ran(0, <<"Traceback">>)],
      [fault |-> "no_allowed", run |-> Ran(0, <<"{}">>)],
      [fault |-> "null", run |-> Ran(0, <<"null">>)] }

Returned(allowed, reason) ==
    [raised |-> FALSE, allowed |-> allowed, reason |-> reason, message |-> <<>>]
Raised(message) ==
    [raised |-> TRUE, allowed |-> FALSE, reason |-> Undefined, message |-> message]

\* executeRule: JSON.parse(stdout.trim()) and the test of result.allowed
executeRule(run) ==
    IF run.threw THEN Raised(run.message)
    ELSE LET text == Trim(run.stdout)
         IN  IF Len(text) # 1 THEN Raised(<<"Python bridge returned invalid JSON">>)
             ELSE CASE text[1] = "{allowed:true}" -> Returned(TRUE, Undefined)
                    [] text[1] = "{allowed:false,reason}" ->
                         Returned(FALSE, <<"Ticker is restricted">>)
                    [] text[1] = "{allowed:false}" -> Returned(FALSE, Undefined)
                    [] text[1] = "{allowed:false,reason:''}" -> Returned(FALSE, <<>>)
                    [] text[1] = "{}" ->
                         Raised(<<"Rule result missing boolean 'allowed'">>)
                    [] text[1] = "null" ->
                         Raised(<<"Cannot read properties of null">>)
                    [] OTHER -> Raised(<<"Python bridge returned invalid JSON">>)

\* The mutant matches the role without regard to letter case.
FoldRole(r) == IF r = "Analyst" THEN "analyst" ELSE r
SkippedFoldsCase(rule, role) ==
    \/ ~rule.active
    \/ /\ Cardinality(rule.applies_to_roles) > 0
       /\ FoldRole(role) \notin {FoldRole(r) : r \in rule.applies_to_roles}

\* if (!rule.active) continue; if (roles.length > 0 && !roles.includes(role)) continue
Skipped(rule, role) ==
    \/ ~rule.active
    \/ Cardinality(rule.applies_to_roles) > 0 /\ role \notin rule.applies_to_roles

\* The mutant leaves the loop at the first rule it should skip.
NextApplicableBreak(rules, from, role) ==
    IF from \in DOMAIN rules /\ ~Skipped(rules[from], role) THEN from ELSE 0

\* The for loop up to the next rule that is run: its position, or 0 at the end
NextApplicable(rules, from, role) ==
    LET run == {i \in from..Len(rules) : ~Skipped(rules[i], role)}
    IN  IF run = {} THEN 0 ELSE CHOOSE i \in run : \A j \in run : i <= j

\* The mutant lets the last rule decide.
VerdictLastWins(resp, rule, execution) ==
    IF execution.raised
    THEN [resp EXCEPT !.allowed = FALSE,
                      !.reasons = Append(@, <<"Rule ", rule.rule_name,
                                              " execution failed: ">> \o execution.message),
                      !.policy_refs = Append(@, rule.policy_reference)]
    ELSE IF ~execution.allowed
    THEN [resp EXCEPT !.allowed = FALSE,
                      !.reasons = IF Truthy(execution.reason)
                                  THEN Append(@, execution.reason) ELSE @,
                      !.policy_refs = Append(@, rule.policy_reference)]
    ELSE [resp EXCEPT !.allowed = TRUE]

\* The mutant denies on a raise without reporting it.
VerdictRaiseUnreported(resp, rule, execution) ==
    IF execution.raised
    THEN [resp EXCEPT !.allowed = FALSE]
    ELSE IF ~execution.allowed
    THEN [resp EXCEPT !.allowed = FALSE,
                      !.reasons = IF Truthy(execution.reason)
                                  THEN Append(@, execution.reason) ELSE @,
                      !.policy_refs = Append(@, rule.policy_reference)]
    ELSE resp

\* The try and catch of the loop body: the response after one rule has run
Verdict(resp, rule, execution) ==
    IF execution.raised
    THEN [resp EXCEPT !.allowed = FALSE,
                      !.reasons = Append(@, <<"Rule ", rule.rule_name,
                                              " execution failed: ">> \o execution.message),
                      !.policy_refs = Append(@, rule.policy_reference)]
    ELSE IF ~execution.allowed
    THEN [resp EXCEPT !.allowed = FALSE,
                      !.reasons = IF Truthy(execution.reason)
                                  THEN Append(@, execution.reason) ELSE @,
                      !.policy_refs = Append(@, rule.policy_reference)]
    ELSE resp

\* The for loop from position `from` with response resp: it runs the next
\* applicable rule, or returns the response
RunFrom(bundle, from, resp, role) ==
    LET next == NextApplicable(bundle.rules, from, role)
    IN  /\ checkIdx' = next
        /\ IF next = 0
           THEN /\ response' = resp
                /\ cpc' = "done"
           ELSE /\ response' = [resp EXCEPT !.rules_checked =
                                   Append(@, bundle.rules[next].rule_name)]
                /\ cpc' = "exec"

\* checkCompliance is called: loadRules answers from the cache, or awaits
\* file.exists()
CheckCall ==
    /\ cpc = "idle"
    /\ \E firm \in FirmNames, role \in Roles :
          /\ checkFirm' = firm
          /\ employeeRole' = role
          /\ execLog' = <<>>
          /\ fresh' = IF firm \in DOMAIN pipelineCache
                      THEN {pipelineCache[firm]} ELSE {}
          /\ IF firm \in DOMAIN executorCache
             THEN /\ stored' = executorCache[firm]
                  /\ RunFrom(executorCache[firm], 1, NoVerdict, role)
             ELSE /\ cpc' = "exists"
                  /\ stored' = NoStored
                  /\ checkIdx' = 0
                  /\ response' = NoVerdict
    /\ UNCHANGED <<pc, envVars, liveSandboxes, refineVars, validatorVars,
                   policyVars, storeVars, executorCache>>

\* file.exists() answers: without a document loadRules returns null and the
\* verdict is the empty one; with one it awaits file.text()
LoadExists ==
    /\ cpc = "exists"
    /\ IF getFilePath(checkFirm) \notin DOMAIN files
       THEN /\ response' = NoVerdict
            /\ cpc' = "done"
       ELSE /\ cpc' = "text"
            /\ UNCHANGED response
    /\ UNCHANGED <<pc, envVars, liveSandboxes, refineVars, validatorVars,
                   policyVars, storeVars, executorCache, checkFirm, employeeRole,
                   stored, checkIdx, execLog, fresh>>

\* file.text() answers: JSON.parse throws on an incomplete text; otherwise the
\* bundle is cached and the for loop begins
LoadText ==
    /\ cpc = "text"
    /\ LET document == files[getFilePath(checkFirm)]
       IN  IF ~document.complete
           THEN /\ cpc' = "threw"
                /\ UNCHANGED <<executorCache, stored, checkIdx, response>>
           ELSE LET parsed == JSONparse(document.text)
                IN  /\ executorCache' = MapSet(executorCache, checkFirm, parsed)
                    /\ stored' = parsed
                    /\ RunFrom(parsed, 1, response, employeeRole)
    /\ UNCHANGED <<pc, envVars, liveSandboxes, refineVars, validatorVars,
                   policyVars, storeVars, checkFirm, employeeRole, execLog, fresh>>

\* executeRule answers or throws: the verdict is updated and the loop goes on
ExecuteRule ==
    /\ cpc = "exec"
    /\ \E a \in RuleRuns :
          /\ a.fault \in ruleFaults \cup {"none"}
          /\ LET execution == executeRule(a.run)
                 rule == stored.rules[checkIdx]
             IN  /\ execLog' = Append(execLog,
                                      [ index |-> checkIdx, raised |-> execution.raised,
                                        allowed |-> execution.allowed ])
                 /\ RunFrom(stored, checkIdx + 1, Verdict(response, rule, execution),
                            employeeRole)
    /\ UNCHANGED <<pc, envVars, liveSandboxes, refineVars, validatorVars,
                   policyVars, storeVars, executorCache, checkFirm, employeeRole,
                   stored, fresh>>

\* The compliance endpoint has answered (the verdict, or the 500 of its
\* catch) and takes the next request
CheckAgain ==
    /\ cpc \in {"done", "threw"}
    /\ cpc' = "idle"
    /\ checkFirm' = <<>>
    /\ employeeRole' = ""
    /\ stored' = NoStored
    /\ checkIdx' = 0
    /\ response' = NoVerdict
    /\ execLog' = <<>>
    /\ fresh' = {}
    /\ UNCHANGED <<pc, envVars, liveSandboxes, refineVars, validatorVars,
                   policyVars, storeVars, executorCache>>

\* The ingest endpoint has answered and takes the next request
IngestAgain ==
    /\ pc = "responded"
    /\ pc' = "idle"
    /\ initialRule' = Draft("", "", "", <<>>, {})
    /\ currentRule' = Draft("", "", "", <<>>, {})
    /\ attempt' = 0
    /\ context' = NoContext
    /\ regenerated' = NotAsked
    /\ loopResult' = NoResult
    /\ validatorCalls' = 0
    /\ sandbox' = FALSE
    /\ validationResult' = NoValidation
    /\ sandboxOps' = <<>>
    /\ execResult' = NoRun
    /\ request' = [firm_name |-> Undefined, policy_text |-> Undefined]
    /\ firmName' = <<>>
    /\ initialRules' = <<>>
    /\ ruleIdx' = 0
    /\ validatedRules' = <<>>
    /\ totalIterations' = 0
    /\ saveData' = NoStored
    /\ ingestResponse' = NoResponse
    /\ UNCHANGED <<envVars, liveSandboxes, storeVars, checkVars>>

----------------------------------------------------------------------------
(* One call of validateAndRefineRule *)

\* No compliance check is in progress
CheckIdle ==
    /\ executorCache = <<>>
    /\ cpc = "none"
    /\ checkFirm = <<>>
    /\ employeeRole = ""
    /\ stored = NoStored
    /\ checkIdx = 0
    /\ response = NoVerdict
    /\ execLog = <<>>
    /\ fresh = {}

\* No rule is being refined
RefineIdle ==
    /\ initialRule = Draft("", "", "", <<>>, {})
    /\ currentRule = Draft("", "", "", <<>>, {})
    /\ attempt = 0
    /\ context = NoContext
    /\ regenerated = NotAsked
    /\ loopResult = NoResult
    /\ validatorCalls = 0

ValidatorIdle ==
    /\ sandbox = FALSE
    /\ validationResult = NoValidation
    /\ sandboxOps = <<>>
    /\ execResult = NoRun

\* No ingestion is in progress
PolicyIdle ==
    /\ request = [firm_name |-> Undefined, policy_text |-> Undefined]
    /\ firmName = <<>>
    /\ initialRules = <<>>
    /\ ruleIdx = 0
    /\ validatedRules = <<>>
    /\ totalIterations = 0
    /\ saveData = NoStored
    /\ ingestResponse = NoResponse

StoreEmpty ==
    /\ files = <<>>
    /\ pipelineCache = <<>>

\* The two ingestions whose saveRules calls overlap
Ingestions == {"first", "second"}

\* No saveRules call of theirs has begun
CallsIdle ==
    /\ saveCalls = [s \in Ingestions |-> [pc |-> "idle", data |-> NoStored]]
    /\ returned = <<>>

NoCheckRequest == [firm_name |-> Undefined, employee_id |-> Undefined, query |-> Undefined]
NoAnswer == [http |-> 0, status |-> "", code |-> ""]

\* No compliance-check request has arrived
RouteIdle ==
    /\ rpc = "idle"
    /\ checkRequest = NoCheckRequest
    /\ checkAnswer = NoAnswer
    /\ routeCalls = <<>>

\* A promise: pending, or settled with a value or an error
Pending == [state |-> "pending", value |-> <<>>, code |-> ""]
NoChild == [bin |-> "", state |-> "none", exitCode |-> 0, stdout |-> <<>>,
            stderr |-> <<>>, signal |-> ""]

\* PYTHON_BIN is not set
Unset == "<unset>"

\* runPythonCode has not been called
BridgeIdle ==
    /\ pythonBinEnv = Unset
    /\ installed = {}
    /\ timeoutMs = 0
    /\ bridgePc = "idle"
    /\ candidates = <<>>
    /\ candidateIdx = 0
    /\ spawned = <<>>
    /\ bridgeOutcome = Pending
    /\ child = NoChild
    /\ timeoutHandle = "null"
    /\ promise = Pending

InitRefine ==
    /\ pc = "while"
    /\ maxIterationsPerRule \in 1..MaxIterations
    /\ preserveSandbox \in BOOLEAN
    /\ sandboxFaults = FaultKinds
    /\ ruleFaults = {}
    /\ NamesIdle
    /\ liveSandboxes = 0
    /\ CallsIdle
    /\ RouteIdle
    /\ BridgeIdle
    /\ initialRule \in DraftPool
    /\ currentRule = [initialRule EXCEPT !.validation_history = <<>>]
    /\ attempt = 0
    /\ context = NoContext
    /\ regenerated = NotAsked
    /\ loopResult = NoResult
    /\ validatorCalls = 0
    /\ ValidatorIdle
    /\ PolicyIdle
    /\ StoreEmpty
    /\ CheckIdle

NextRefine ==
    \/ WhileLoop
    \/ SandboxCreate
    \/ SandboxSyntax
    \/ SandboxTests
    \/ SandboxDelete
    \/ RecordAttempt
    \/ RegenerateRule

SpecRefine == InitRefine /\ [][NextRefine]_vars /\ WF_vars(NextRefine)

----------------------------------------------------------------------------
(* One ingestion: the endpoint, processPolicy and saveRules *)

\* The option value the pipeline of an ingestion is constructed with
IngestIterations == 2

Init ==
    /\ pc = "idle"
    /\ maxIterationsPerRule = IngestIterations
    /\ preserveSandbox = FALSE
    /\ sandboxFaults \in {{}} \cup {{k} : k \in FaultKinds}
    /\ ruleFaults = {}
    /\ NamesIdle
    /\ liveSandboxes = 0
    /\ CallsIdle
    /\ RouteIdle
    /\ BridgeIdle
    /\ RefineIdle
    /\ ValidatorIdle
    /\ PolicyIdle
    /\ StoreEmpty
    /\ CheckIdle

Next ==
    \/ IngestPost
    \/ GenerateRules
    \/ WhileLoop
    \/ SandboxCreate
    \/ SandboxSyntax
    \/ SandboxTests
    \/ SandboxDelete
    \/ RecordAttempt
    \/ RegenerateRule
    \/ ProcessPolicyLoop
    \/ SaveOpen
    \/ SaveWrite
    \/ IngestCatch

Spec == Init /\ [][Next]_vars

----------------------------------------------------------------------------
(* validateRule on the codes the static screen tells apart *)

\* The longest code a draft carries, in tokens
MaxCodeLen == 2

\* The tokens of the codes: a harmless line, and denylist entries in the
\* spelling of the list and in other letter case
CodeTokens ==
    { "def rule(employee, security, trade_date):", "IMPORT OS",
      "Import Subprocess", "eval(", "EVAL(", "sys.stderr" }

ScreenedDrafts ==
    { Draft("screened", "Screened", "Section 3", code, {}) :
        code \in ListsUpTo(CodeTokens, MaxCodeLen) }

InitScreen ==
    /\ pc = "while"
    /\ maxIterationsPerRule \in 1..IngestIterations
    /\ preserveSandbox = FALSE
    /\ sandboxFaults = {}
    /\ ruleFaults = {}
    /\ NamesIdle
    /\ liveSandboxes = 0
    /\ CallsIdle
    /\ RouteIdle
    /\ BridgeIdle
    /\ initialRule \in ScreenedDrafts
    /\ currentRule = [initialRule EXCEPT !.validation_history = <<>>]
    /\ attempt = 0
    /\ context = NoContext
    /\ regenerated = NotAsked
    /\ loopResult = NoResult
    /\ validatorCalls = 0
    /\ ValidatorIdle
    /\ PolicyIdle
    /\ StoreEmpty
    /\ CheckIdle

NextScreen ==
    \/ WhileLoop
    \/ SandboxCreate
    \/ SandboxSyntax
    \/ SandboxTests
    \/ SandboxDelete
    \/ RecordAttempt
    \/ RegenerateRule

SpecScreen == InitScreen /\ [][NextScreen]_vars

----------------------------------------------------------------------------
(* normalizeFirmName on the names a store is called with *)

\* The longest firm name, in tokens
MaxNameLen == 5

\* The tokens of the names: white space, and words in two spellings
NameTokens == {" ", "ACME", "acme", "Corp", "corp"}

InitNormalize ==
    /\ pc = "idle"
    /\ maxIterationsPerRule = IngestIterations
    /\ preserveSandbox = FALSE
    /\ sandboxFaults = {}
    /\ ruleFaults = {}
    /\ nameArg \in ListsUpTo(NameTokens, MaxNameLen)
    /\ nameKey = NoKey
    /\ liveSandboxes = 0
    /\ CallsIdle
    /\ RouteIdle
    /\ BridgeIdle
    /\ RefineIdle
    /\ ValidatorIdle
    /\ PolicyIdle
    /\ StoreEmpty
    /\ CheckIdle

\* getFilePath normalizes the name it was given
NormalizeName ==
    /\ nameKey = NoKey
    /\ nameKey' = normalizeFirmName(nameArg)
    /\ UNCHANGED <<pc, optionVars, sideVars, nameArg, liveSandboxes, refineVars,
                   validatorVars, outerVars>>

\* The key is used as a firm name in turn
NormalizeKey ==
    /\ nameKey # NoKey
    /\ nameArg # nameKey
    /\ nameArg' = nameKey
    /\ nameKey' = normalizeFirmName(nameKey)
    /\ UNCHANGED <<pc, optionVars, sideVars, liveSandboxes, refineVars,
                   validatorVars, outerVars>>

NextNormalize ==
    \/ NormalizeName
    \/ NormalizeKey

SpecNormalize == InitNormalize /\ [][NextNormalize]_vars

----------------------------------------------------------------------------
(* One compliance check against a stored document *)

\* The documents an ingestion or an operator has left for the firm
StoredDocuments ==
    { Document(JSONstringify(RulesData(<<"Meridian">>, rules, Len(rules)))) :
        rules \in ListsUpTo(StoredRulePool, MaxRules) }

InitCheck ==
    /\ pc = "idle"
    /\ maxIterationsPerRule = IngestIterations
    /\ preserveSandbox = FALSE
    /\ sandboxFaults = {}
    /\ ruleFaults = RuleFaultKinds
    /\ NamesIdle
    /\ liveSandboxes = 0
    /\ CallsIdle
    /\ RouteIdle
    /\ BridgeIdle
    /\ RefineIdle
    /\ ValidatorIdle
    /\ PolicyIdle
    /\ pipelineCache = <<>>
    /\ \/ files = <<>>
       \/ \E document \in StoredDocuments :
             files = MapSet(<<>>, getFilePath(<<"Meridian">>), document)
    /\ executorCache = <<>>
    /\ cpc = "idle"
    /\ checkFirm = <<>>
    /\ employeeRole = ""
    /\ stored = NoStored
    /\ checkIdx = 0
    /\ response = NoVerdict
    /\ execLog = <<>>
    /\ fresh = {}

NextCheck ==
    \/ CheckCall
    \/ LoadExists
    \/ LoadText
    \/ ExecuteRule

SpecCheck == InitCheck /\ [][NextCheck]_vars

----------------------------------------------------------------------------
(* The rules store between the two endpoints of one server process:
   ingestions save and compliance checks load, in turn and overlapping *)

\* The longest list of validated rules an ingestion saves
MaxSaved == 1

\* The rules validateAndRefineRule hands back validated: they are active and
\* their last attempt passed
ValidatedPool == {r \in StoredRulePool : r.active}

\* processPolicy arrives at its call of saveRules with the rules it has
\* validated and the attempts it has counted
ProcessPolicySaves ==
    /\ pc = "idle"
    /\ \E rules \in ListsUpTo(ValidatedPool, MaxSaved) :
          /\ firmName' = <<"Meridian">>
          /\ validatedRules' = rules
          /\ totalIterations' = Len(rules)
          /\ CallSaveRules(<<"Meridian">>, rules, Len(rules))
    /\ UNCHANGED <<envVars, liveSandboxes, refineVars, validatorVars, request,
                   initialRules, ruleIdx, ingestResponse, storeVars, checkVars>>

InitStore ==
    /\ pc = "idle"
    /\ maxIterationsPerRule = IngestIterations
    /\ preserveSandbox = FALSE
    /\ sandboxFaults = {}
    /\ ruleFaults = {}
    /\ NamesIdle
    /\ liveSandboxes = 0
    /\ CallsIdle
    /\ RouteIdle
    /\ BridgeIdle
    /\ RefineIdle
    /\ ValidatorIdle
    /\ PolicyIdle
    /\ StoreEmpty
    /\ executorCache = <<>>
    /\ cpc = "idle"
    /\ checkFirm = <<>>
    /\ employeeRole = ""
    /\ stored = NoStored
    /\ checkIdx = 0
    /\ response = NoVerdict
    /\ execLog = <<>>
    /\ fresh = {}

NextStore ==
    \/ ProcessPolicySaves
    \/ SaveOpen
    \/ SaveWrite
    \/ IngestCatch
    \/ IngestAgain
    \/ CheckCall
    \/ LoadExists
    \/ LoadText
    \/ ExecuteRule
    \/ CheckAgain

SpecStore == InitStore /\ [][NextStore]_vars

----------------------------------------------------------------------------
(* One save and one load: an ingestion reaches saveRules while a compliance
   check of the same process loads *)

NextSaveLoad ==
    \/ ProcessPolicySaves
    \/ SaveOpen
    \/ SaveWrite
    \/ IngestCatch
    \/ CheckCall
    \/ LoadExists
    \/ LoadText
    \/ ExecuteRule

SpecSaveLoad == InitStore /\ [][NextSaveLoad]_vars

----------------------------------------------------------------------------
(* One RulesStorage: calls of saveRules and loadRules, one after the other *)

\* saveRules(name, rules, totalIterations) from its call to its return
StorageSaveRules ==
    /\ cpc = "idle"
    /\ \E name \in FirmNames, rules \in ListsUpTo(ValidatedPool, MaxSaved) :
          LET data == RulesData(name, rules, Len(rules))
          IN  /\ saveData' = data
              /\ files' = MapSet(files, getFilePath(name), Document(JSONstringify(data)))
              /\ pipelineCache' = MapSet(pipelineCache, name, data)
    /\ UNCHANGED <<pc, envVars, liveSandboxes, refineVars, validatorVars, request,
                   firmName, initialRules, ruleIdx, validatedRules, totalIterations,
                   ingestResponse, checkVars>>

\* loadRules(name) is called on the same store
StorageLoadCall ==
    /\ cpc = "idle"
    /\ \E name \in FirmNames : checkFirm' = name
    /\ cpc' = "loadRules"
    /\ stored' = NoStored
    /\ UNCHANGED <<pc, envVars, liveSandboxes, refineVars, validatorVars,
                   policyVars, storeVars, executorCache, employeeRole, checkIdx,
                   response, execLog, fresh>>

\* loadRules returns: the cache entry of the name, or null without a
\* document, or the parsed document, which it puts into the cache
StorageLoadReturns ==
    /\ cpc = "loadRules"
    /\ cpc' = "idle"
    /\ IF checkFirm \in DOMAIN pipelineCache
       THEN /\ stored' = pipelineCache[checkFirm]
            /\ UNCHANGED pipelineCache
       ELSE IF getFilePath(checkFirm) \notin DOMAIN files
       THEN /\ stored' = NoStored
            /\ UNCHANGED pipelineCache
       ELSE LET parsed == JSONparse(files[getFilePath(checkFirm)].text)
            IN  /\ pipelineCache' = MapSet(pipelineCache, checkFirm, parsed)
                /\ stored' = parsed
    /\ UNCHANGED <<pc, envVars, liveSandboxes, refineVars, validatorVars,
                   policyVars, files, executorCache, checkFirm, employeeRole,
                   checkIdx, response, execLog, fresh>>

NextOneStore ==
    \/ StorageSaveRules
    \/ StorageLoadCall
    \/ StorageLoadReturns

SpecOneStore == InitStore /\ [][NextOneStore]_vars

----------------------------------------------------------------------------
(* An ingestion for a firm whose rules an earlier ingestion has saved *)

\* The bundle of the earlier ingestion
EarlierBundle ==
    RulesData(<<"Meridian">>,
              <<StoredRule("lockup_week", "Lock-up week", "Section 9", {}, TRUE)>>, 1)

\* The store after saveRules of the earlier ingestion has returned
EarlierFiles ==
    MapSet(<<>>, getFilePath(<<"Meridian">>), Document(JSONstringify(EarlierBundle)))
EarlierCache == MapSet(<<>>, <<"Meridian">>, EarlierBundle)

InitReingest ==
    /\ pc = "idle"
    /\ maxIterationsPerRule = IngestIterations
    /\ preserveSandbox = FALSE
    /\ sandboxFaults \in {{}, {"syntax_silent"}}
    /\ ruleFaults = {}
    /\ NamesIdle
    /\ liveSandboxes = 0
    /\ CallsIdle
    /\ RouteIdle
    /\ BridgeIdle
    /\ RefineIdle
    /\ ValidatorIdle
    /\ PolicyIdle
    /\ files = EarlierFiles
    /\ pipelineCache = EarlierCache
    /\ CheckIdle

NextReingest ==
    \/ IngestPost
    \/ GenerateRules
    \/ WhileLoop
    \/ SandboxCreate
    \/ SandboxSyntax
    \/ SandboxTests
    \/ SandboxDelete
    \/ RecordAttempt
    \/ RegenerateRule
    \/ ProcessPolicyLoop
    \/ SaveOpen
    \/ SaveWrite
    \/ IngestCatch

SpecReingest == InitReingest /\ [][NextReingest]_vars

----------------------------------------------------------------------------
(* Two ingestions of one firm reach saveRules of the pipeline's RulesStorage
   while the other's call is under way; compliance checks load in between.
   Bun.write is awaited: the write opens the file (truncating it), its text
   lands, and the call goes on after the await with cache.set *)

\* What the overlapping saveRules calls leave alone
ingestVars == <<pc, optionVars, nameVars, routeVars, bridgeVars, liveSandboxes,
                refineVars, validatorVars, policyVars>>

\* saveRules(firmName, rules, totalIterations) up to its await of Bun.write
SaveRulesCall(s) ==
    /\ saveCalls[s].pc = "idle"
    /\ \E rules \in ListsUpTo(ValidatedPool, MaxSaved) :
          saveCalls' = [saveCalls EXCEPT ![s] =
                          [ pc |-> "open",
                            data |-> RulesData(<<"Meridian">>, rules, Len(rules)) ]]
    /\ UNCHANGED <<ingestVars, returned, storeVars, checkVars>>

\* Bun.write opens and truncates the file, or fails before touching it
BunWriteOpens(s) ==
    /\ saveCalls[s].pc = "open"
    /\ \/ /\ files' = MapSet(files, getFilePath(saveCalls[s].data.firm_name),
                             Truncated(JSONstringify(saveCalls[s].data)))
          /\ saveCalls' = [saveCalls EXCEPT ![s].pc = "write"]
       \/ /\ saveCalls' = [saveCalls EXCEPT ![s].pc = "failed"]
          /\ UNCHANGED files
    /\ UNCHANGED <<ingestVars, returned, pipelineCache, checkVars>>

\* The text of the write lands in the file, from its first byte on.  Where
\* another write has put a different text into the file since this one
\* opened it, a longer text of that write keeps its end behind this text: the
\* file is then no whole document.  Or the write fails.
BunWriteLands(s) ==
    /\ saveCalls[s].pc = "write"
    /\ LET path == getFilePath(saveCalls[s].data.firm_name)
           text == JSONstringify(saveCalls[s].data)
       IN  \/ /\ files' = MapSet(files, path, Document(text))
              /\ saveCalls' = [saveCalls EXCEPT ![s].pc = "landed"]
           \/ /\ files[path].complete
              /\ files[path].text # text
              /\ files' = MapSet(files, path, Truncated(text))
              /\ saveCalls' = [saveCalls EXCEPT ![s].pc = "landed"]
           \/ /\ saveCalls' = [saveCalls EXCEPT ![s].pc = "failed"]
              /\ UNCHANGED files
    /\ UNCHANGED <<ingestVars, returned, pipelineCache, checkVars>>

\* After the await: this.cache.set(firmName, data); return data
SaveRulesReturns(s) ==
    /\ saveCalls[s].pc = "landed"
    /\ pipelineCache' = MapSet(pipelineCache, saveCalls[s].data.firm_name,
                               saveCalls[s].data)
    /\ saveCalls' = [saveCalls EXCEPT ![s].pc = "returned"]
    /\ returned' = Append(returned, s)
    /\ fresh' = IF cpc \in {"exists", "text"}
                   /\ checkFirm = saveCalls[s].data.firm_name
                THEN fresh \cup {saveCalls[s].data}
                ELSE fresh
    /\ UNCHANGED <<ingestVars, files, checkLocals>>

NextTwoSaves ==
    \/ \E s \in Ingestions : SaveRulesCall(s)
    \/ \E s \in Ingestions : BunWriteOpens(s)
    \/ \E s \in Ingestions : BunWriteLands(s)
    \/ \E s \in Ingestions : SaveRulesReturns(s)
    \/ CheckCall
    \/ LoadExists
    \/ LoadText
    \/ ExecuteRule
    \/ CheckAgain

SpecTwoSaves == InitStore /\ [][NextTwoSaves]_vars

----------------------------------------------------------------------------
(* The compliance-check endpoint, one action per await *)

CheckBodies ==
    [ firm_name : {Undefined, <<" ">>, <<" ", "Meridian", " ">>},
      employee_id : {Undefined, <<>>, <<"EMP006">>, <<"EMP999">>},
      query : {Undefined, <<" ">>, <<"Can", " ", "I", " ", "buy", " ", "TSLA?">>} ]

\* A body request.json() cannot read
MalformedBody == [firm_name |-> Null, employee_id |-> Null, query |-> Null]

\* The employees of demo_data_simple.json
DemoEmployees == {<<"EMP006">>}

CheckError(http, code) == [http |-> http, status |-> "ERROR", code |-> code]
CheckSuccess == [http |-> 200, status |-> "SUCCESS", code |-> ""]

\* What the endpoint leaves alone before it calls checkCompliance
besideRoute == <<pc, optionVars, nameVars, callVars, bridgeVars, liveSandboxes,
                 refineVars, validatorVars, outerVars>>

\* POST /api/compliance/check: the body is read and the three fields tested
CompliancePost ==
    /\ rpc = "idle"
    /\ \/ /\ checkRequest' = MalformedBody
          /\ checkAnswer' = CheckError(500, "UNEXPECTED_ERROR")
          /\ rpc' = "responded"
       \/ \E body \in CheckBodies :
             LET firm == OptionalTrim(body.firm_name)
                 employeeId == OptionalTrim(body.employee_id)
                 query == OptionalTrim(body.query)
             IN  /\ checkRequest' = body
                 /\ IF ~Truthy(firm) \/ ~Truthy(employeeId) \/ ~Truthy(query)
                    THEN /\ checkAnswer' = CheckError(400, "INVALID_REQUEST")
                         /\ rpc' = "responded"
                    ELSE /\ rpc' = "parseQuery"
                         /\ UNCHANGED checkAnswer
    /\ UNCHANGED <<besideRoute, routeCalls>>

\* parser.parseQuery answers or throws
ParseQuery ==
    /\ rpc = "parseQuery"
    /\ routeCalls' = Append(routeCalls, "parseQuery")
    /\ \/ /\ rpc' = "getEmployeeById"
          /\ UNCHANGED checkAnswer
       \/ /\ checkAnswer' = CheckError(400, "PARSE_ERROR")
          /\ rpc' = "responded"
    /\ UNCHANGED <<besideRoute, checkRequest>>

\* getEmployeeById answers with the record or null, or the demo data cannot
\* be read
GetEmployeeById ==
    /\ rpc = "getEmployeeById"
    /\ routeCalls' = Append(routeCalls, "getEmployeeById")
    /\ \/ IF Trim(checkRequest.employee_id) \in DemoEmployees
          THEN /\ rpc' = "getFirmRestrictions"
               /\ UNCHANGED checkAnswer
          ELSE /\ checkAnswer' = CheckError(404, "EMPLOYEE_NOT_FOUND")
               /\ rpc' = "responded"
       \/ /\ checkAnswer' = CheckError(500, "UNEXPECTED_ERROR")
          /\ rpc' = "responded"
    /\ UNCHANGED <<besideRoute, checkRequest>>

\* getFirmRestrictions answers from the demo data read before
GetFirmRestrictions ==
    /\ rpc = "getFirmRestrictions"
    /\ routeCalls' = Append(routeCalls, "getFirmRestrictions")
    /\ rpc' = "checkCompliance"
    /\ UNCHANGED <<besideRoute, checkRequest, checkAnswer>>

\* executor.checkCompliance(firmName, employee, ...) is called
RouteCheckCompliance ==
    /\ rpc = "checkCompliance"
    /\ CheckCall
    /\ checkFirm' = Trim(checkRequest.firm_name)

\* checkCompliance has returned or thrown: the endpoint answers
ComplianceRespond ==
    /\ rpc = "checkCompliance"
    /\ cpc \in {"done", "threw"}
    /\ checkAnswer' = IF cpc = "done" THEN CheckSuccess
                      ELSE CheckError(500, "UNEXPECTED_ERROR")
    /\ rpc' = "responded"
    /\ UNCHANGED <<besideRoute, checkRequest, routeCalls>>

NextRoute ==
    \/ CompliancePost
    \/ ParseQuery
    \/ GetEmployeeById
    \/ GetFirmRestrictions
    \/ RouteCheckCompliance
    \/ LoadExists
    \/ LoadText
    \/ ExecuteRule
    \/ ComplianceRespond

SpecRoute == InitCheck /\ [][NextRoute]_vars

----------------------------------------------------------------------------
(* python-bridge: runPythonCode and executeWithPythonBin, one action per
   event of the child process and per await *)

\* The binaries a machine may hold, and the values of PYTHON_BIN
PythonBins == {"python", "python3", "python3.11"}
PythonBinSettings == {Unset, "python3", "python3.11"}

\* The values of options.timeoutMs: none, and the executor's ten seconds
TimeoutSettings == {0, 10000}

\* The most chunks a child writes to its two streams together
MaxChunks == 2

\* What a child writes to stdout and to stderr
StdoutChunks == {"{allowed:true}"}
StderrChunks == {"Traceback", "Executable not found"}

\* The exit code of a close event: null for a child ended by a signal, and
\* the code after a failed spawn
NullCode == -1
SpawnFailedCode == -2

\* process.env.PYTHON_BIN ?? "python"
configured == IF pythonBinEnv = Unset THEN "python" ELSE pythonBinEnv

\* Array.from(new Set(list)): the first occurrences, in order
RECURSIVE ArrayFromSet(_)
ArrayFromSet(list) ==
    IF list = <<>> THEN <<>>
    ELSE LET front == ArrayFromSet(SubSeq(list, 1, Len(list) - 1))
             last == list[Len(list)]
         IN  IF \E k \in DOMAIN front : front[k] = last
             THEN front ELSE Append(front, last)

Resolved(value) == [state |-> "resolved", value |-> value, code |-> ""]
Rejected(code, message) == [state |-> "rejected", value |-> message, code |-> code]

\* The mutant lets a later resolve or reject replace the outcome.
SettleAgain(p, outcome) == outcome

\* resolve and reject of a promise: the first call settles it
Settle(p, outcome) == IF p.state = "pending" THEN outcome ELSE p

\* if (timeoutHandle) clearTimeout(timeoutHandle)
ClearTimeout(handle) == IF handle = "armed" THEN "cleared" ELSE handle

TimeoutError == Rejected("", <<"Python process timed out after ", "ms">>)
\* `${code}` of an exit code
CodeText(code) ==
    CASE code = 0 -> "0"
      [] code = 1 -> "1"
      [] code = NullCode -> "null"
      [] OTHER -> "-2"

ExitError(code, stderr, stdout) ==
    Rejected("", <<"Python exited with code ", CodeText(code), ": ">>
                 \o (IF stderr # <<>> THEN stderr ELSE stdout))
NotFoundError(tried) ==
    Rejected("", <<"Python executable not found. Tried: ">> \o tried
                 \o <<". Set PYTHON_BIN in your environment.">>)

\* The error events of a spawn: the binary is not found (with the code of
\* Node, or with the message of Bun), or it cannot be executed
SpawnErrors(bin) ==
    IF bin \notin installed
    THEN { Rejected("ENOENT", <<"spawn ", bin, " ENOENT">>),
           Rejected("", <<"Executable not found", " in $PATH: ", bin>>) }
    ELSE { Rejected("EACCES", <<"spawn ", bin, " EACCES">>) }

KillError == Rejected("EPERM", <<"kill EPERM">>)

\* runPythonCode: isNotFound
isNotFound(err) ==
    err.code = "ENOENT" \/ Includes(err.value, "Executable not found")

\* What the python bridge leaves alone
besideBridge == <<pc, optionVars, nameVars, callVars, routeVars, liveSandboxes,
                  refineVars, validatorVars, outerVars>>

\* runPythonCode is called: the candidates are listed and the loop begins
RunPythonCode ==
    /\ bridgePc = "idle"
    /\ candidates' = ArrayFromSet(<<configured, "python3">>)
    /\ candidateIdx' = 1
    /\ bridgePc' = "loop"
    /\ UNCHANGED <<besideBridge, pythonBinEnv, installed, timeoutMs, spawned,
                   bridgeOutcome, child, timeoutHandle, promise>>

\* executeWithPythonBin for the next candidate: the child is spawned, the
\* timer set if a timeout is given, and runPythonCode awaits the promise
ExecuteWithPythonBin ==
    /\ bridgePc = "loop"
    /\ candidateIdx <= Len(candidates)
    /\ child' = [NoChild EXCEPT !.bin = candidates[candidateIdx],
                                 !.state = "running"]
    /\ spawned' = Append(spawned, candidates[candidateIdx])
    /\ timeoutHandle' = IF timeoutMs # 0 THEN "armed" ELSE "null"
    /\ promise' = Pending
    /\ bridgePc' = "await"
    /\ UNCHANGED <<besideBridge, pythonBinEnv, installed, timeoutMs, candidates,
                   candidateIdx, bridgeOutcome>>

\* The loop is over: every candidate was not found
NoCandidateLeft ==
    /\ bridgePc = "loop"
    /\ candidateIdx > Len(candidates)
    /\ bridgeOutcome' = NotFoundError(candidates)
    /\ bridgePc' = "done"
    /\ UNCHANGED <<besideBridge, pythonBinEnv, installed, timeoutMs, candidates,
                   candidateIdx, spawned, child, timeoutHandle, promise>>

\* child.stdout / child.stderr "data": a chunk is added
ChildData ==
    /\ child.state = "running"
    /\ child.bin \in installed
    /\ Len(child.stdout) + Len(child.stderr) < MaxChunks
    /\ \/ \E chunk \in StdoutChunks :
             child' = [child EXCEPT !.stdout = Append(child.stdout, chunk)]
       \/ \E chunk \in StderrChunks :
             child' = [child EXCEPT !.stderr = Append(child.stderr, chunk)]
    /\ UNCHANGED <<besideBridge, pythonBinEnv, installed, timeoutMs, bridgePc,
                   candidates, candidateIdx, spawned, bridgeOutcome,
                   timeoutHandle, promise>>

\* child "error": the spawn failed (before the child wrote anything and
\* before a timer can fire), or the kill of the timeout failed
ChildError ==
    /\ \/ /\ child.state = "running"
          /\ child.stdout = <<>> /\ child.stderr = <<>>
          /\ \E error \in SpawnErrors(child.bin) :
                promise' = Settle(promise, error)
          /\ child' = [child EXCEPT !.state = "errored"]
       \/ /\ child.state = "killed"
          /\ promise' = Settle(promise, KillError)
          /\ child' = [child EXCEPT !.state = "running"]
    /\ timeoutHandle' = ClearTimeout(timeoutHandle)
    /\ UNCHANGED <<besideBridge, pythonBinEnv, installed, timeoutMs, bridgePc,
                   candidates, candidateIdx, spawned, bridgeOutcome>>

\* child "close": the child has ended with an exit code, was ended by the
\* signal, or the event follows a failed spawn
ChildClose ==
    /\ \E code \in {0, 1, NullCode, SpawnFailedCode} :
          /\ \/ child.state = "running" /\ child.bin \in installed /\ code \in {0, 1}
             \/ child.state = "killed" /\ code \in {0, 1, NullCode}
             \/ child.state = "errored" /\ code = SpawnFailedCode
          /\ promise' = Settle(promise,
                               IF code = 0 THEN Resolved(child.stdout)
                               ELSE ExitError(code, child.stderr, child.stdout))
          /\ child' = [child EXCEPT !.state = "closed", !.exitCode = code]
    /\ timeoutHandle' = ClearTimeout(timeoutHandle)
    /\ UNCHANGED <<besideBridge, pythonBinEnv, installed, timeoutMs, bridgePc,
                   candidates, candidateIdx, spawned, bridgeOutcome>>

\* The timer fires on a child that runs: child.kill("SIGKILL") and reject
TimeoutFires ==
    /\ timeoutHandle = "armed"
    /\ child.state = "running"
    /\ child.bin \in installed
    /\ child' = [child EXCEPT !.state = "killed", !.signal = "SIGKILL"]
    /\ promise' = Settle(promise, TimeoutError)
    /\ timeoutHandle' = "fired"
    /\ UNCHANGED <<besideBridge, pythonBinEnv, installed, timeoutMs, bridgePc,
                   candidates, candidateIdx, spawned, bridgeOutcome>>

\* runPythonCode goes on after its await: it returns the stdout, or catches
\* the error and takes the next candidate or throws
RunPythonCodeResumes ==
    /\ bridgePc = "await"
    /\ promise.state # "pending"
    /\ IF promise.state = "resolved"
       THEN /\ bridgeOutcome' = promise
            /\ bridgePc' = "done"
            /\ UNCHANGED candidateIdx
       ELSE IF isNotFound(promise)
       THEN /\ candidateIdx' = candidateIdx + 1
            /\ bridgePc' = "loop"
            /\ UNCHANGED bridgeOutcome
       ELSE /\ bridgeOutcome' = promise
            /\ bridgePc' = "done"
            /\ UNCHANGED candidateIdx
    /\ UNCHANGED <<besideBridge, pythonBinEnv, installed, timeoutMs, candidates,
                   spawned, child, timeoutHandle, promise>>

InitBridge ==
    /\ pc = "idle"
    /\ maxIterationsPerRule = IngestIterations
    /\ preserveSandbox = FALSE
    /\ sandboxFaults = {}
    /\ ruleFaults = {}
    /\ NamesIdle
    /\ CallsIdle
    /\ RouteIdle
    /\ liveSandboxes = 0 /\ RefineIdle /\ ValidatorIdle /\ PolicyIdle
    /\ StoreEmpty /\ CheckIdle
    /\ pythonBinEnv \in PythonBinSettings
    /\ installed \in SUBSET PythonBins
    /\ timeoutMs \in TimeoutSettings
    /\ bridgePc = "idle"
    /\ candidates = <<>>
    /\ candidateIdx = 0
    /\ spawned = <<>>
    /\ bridgeOutcome = Pending
    /\ child = NoChild
    /\ timeoutHandle = "null"
    /\ promise = Pending

NextBridge ==
    \/ RunPythonCode
    \/ ExecuteWithPythonBin
    \/ NoCandidateLeft
    \/ ChildData
    \/ ChildError
    \/ ChildClose
    \/ TimeoutFires
    \/ RunPythonCodeResumes

SpecBridge == InitBridge /\ [][NextBridge]_vars

----------------------------------------------------------------------------
(* Properties of the refinement loop and the validator *)

LastPassed(rule) ==
    /\ rule.validation_history # <<>>
    /\ rule.validation_history[Len(rule.validation_history)].passed

\* C1: the bundle handed to saveRules holds only rules whose last
\* validation_history entry has passed = TRUE, and every rule the ingest
\* endpoint lists has validated = TRUE.
C1_SavedRulesPassed ==
    /\ \A i \in DOMAIN saveData.rules : LastPassed(saveData.rules[i])
    /\ \A i \in DOMAIN ingestResponse.rules : ingestResponse.rules[i].validated
    /\ \A f \in DOMAIN pipelineCache :
          \A i \in DOMAIN pipelineCache[f].rules : LastPassed(pipelineCache[f].rules[i])

\* An ingestion of two drafts answered SUCCESS with one rule, validated on its
\* second attempt, the other draft dropped.
C1_Witness ==
    /\ pc = "responded"
    /\ ingestResponse.status = "SUCCESS"
    /\ Len(initialRules) = 2
    /\ Len(ingestResponse.rules) = 1
    /\ ingestResponse.rules[1].attempts = 2
    /\ Len(saveData.rules[1].validation_history) = 2

RefineEnded == pc \in {"refineReturn", "failed"}

\* C4: validateAndRefineRule ends, and validateRule is called at most
\* maxIterationsPerRule times for one draft.
C4_EndsWithinBudget ==
    /\ [](validatorCalls <= maxIterationsPerRule)
    /\ <>RefineEnded

\* A refinement that used every attempt and returned unvalidated.
C4_Witness ==
    /\ pc = "refineReturn"
    /\ maxIterationsPerRule = MaxIterations
    /\ validatorCalls = maxIterationsPerRule
    /\ ~loopResult.validated

\* C5: for the rule validateAndRefineRule returns, validation_history.length
\* = generation_attempt = iterations, and the i-th entry has attempt_number i.
C5_HistoryMatchesAttempts ==
    pc = "refineReturn" =>
        LET rule == loopResult.rule
        IN  /\ Len(rule.validation_history) = rule.generation_attempt
            /\ rule.generation_attempt = loopResult.iterations
            /\ \A i \in DOMAIN rule.validation_history :
                  rule.validation_history[i].attempt_number = i

\* A return by the empty-regeneration exit after two attempts out of three.
C5_Witness ==
    /\ pc = "refineReturn"
    /\ ~loopResult.validated
    /\ loopResult.iterations = 2
    /\ maxIterationsPerRule = 3
    /\ Len(loopResult.rule.validation_history) = 2

\* C6: without the preserve flag, every sandbox created by a validateRule call
\* is destroyed before the call returns, so none exists between two calls.
C6_NoSandboxOutlivesCall ==
    (~preserveSandbox /\ pc \in {"recordAttempt", "regenerate", "while", "refineReturn"})
        => liveSandboxes = 0

SecurityReason == <<"Code contains insecure pattern: ", "import os">>

\* C8 as stated: a rule whose code the static screen rejects gets a
\* security_issue result with no sandbox call, one failed history entry, and
\* the loop goes on to regeneration.
C8_RejectedThenRegenerated ==
    [][ (pc = "recordAttempt" /\ currentRule.python_code = CodeUnsafe) =>
          /\ validationResult = VResult(FALSE, "security_issue", SecurityReason)
          /\ sandboxOps = <<>>
          /\ Len(currentRule'.validation_history) =
                Len(currentRule.validation_history) + 1
          /\ ~currentRule'.validation_history[Len(currentRule'.validation_history)].passed
          /\ pc' = "regenerate" ]_vars

\* C8 amended: the loop goes on to regeneration unless the rejected attempt was
\* the last one (attempt = maxIterationsPerRule); then it returns unvalidated.
C8_RejectedThenRegeneratedOrOut ==
    [][ (pc = "recordAttempt" /\ currentRule.python_code = CodeUnsafe) =>
          /\ validationResult = VResult(FALSE, "security_issue", SecurityReason)
          /\ sandboxOps = <<>>
          /\ UNCHANGED liveSandboxes
          /\ currentRule'.validation_history =
                Append(currentRule.validation_history,
                       [ attempt_number |-> attempt, passed |-> FALSE,
                         error |-> SecurityReason, test_output |-> Undefined,
                         feedback_to_llm |-> <<"Security violation: ">> \o SecurityReason ])
          /\ IF attempt >= maxIterationsPerRule
             THEN pc' = "refineReturn" /\ ~loopResult'.validated
             ELSE pc' = "regenerate" /\ context'.code = CodeUnsafe ]_vars

\* A first attempt rejected by the screen, recorded, with regeneration called
\* and no sandbox call made.
C8_Witness ==
    /\ pc = "regenerate"
    /\ attempt = 1
    /\ sandboxOps = <<>>
    /\ Len(currentRule.validation_history) = 1
    /\ currentRule.validation_history[1].error = SecurityReason

----------------------------------------------------------------------------
(* The verdict of checkCompliance *)

\* A rule a compliance check has to run: active, and either for every role or for the
\* employee's
Applicable(rule, role) ==
    rule.active /\ (rule.applies_to_roles = {} \/ role \in rule.applies_to_roles)

ApplicableIndices(rules, role) ==
    SelectSeq([i \in 1..Len(rules) |-> i], LAMBDA i : Applicable(rules[i], role))

\* Some rule raised during the compliance check
SomeRuleRaised == \E k \in DOMAIN execLog : execLog[k].raised

\* C3: a returned verdict has allowed = false exactly when its reasons are
\* not empty or an applicable rule raised.  A rule that returns
\* {allowed: false} without a reason gives allowed = false, no reasons and no
\* raise.
C3_DeniedIffReasonOrRaise ==
    cpc = "done" =>
        (~response.allowed <=> (response.reasons # <<>> \/ SomeRuleRaised))

\* C9: the returned allowed is true exactly when every applicable rule of the
\* bundle ran, did not raise and returned allowed = true; and during the
\* check allowed never goes from false back to true.
C9_AllowedIsConjunction ==
    /\ [](cpc = "done" =>
            (response.allowed <=>
                \A i \in DOMAIN stored.rules :
                    Applicable(stored.rules[i], employeeRole) =>
                        \E k \in DOMAIN execLog :
                            /\ execLog[k].index = i
                            /\ ~execLog[k].raised
                            /\ execLog[k].allowed))
    /\ [][cpc = "exec" /\ ~response.allowed => ~response'.allowed]_vars

\* A check has ended denied although the rule that ran last passed
C9_Witness ==
    /\ cpc = "done"
    /\ Len(execLog) >= 2
    /\ ~execLog[1].allowed
    /\ execLog[Len(execLog)].allowed
    /\ ~response.allowed

\* C10: when checkCompliance returns, the rules that were run are the applicable
\* rules of the bundle, each once and in the bundle's order, whatever the
\* earlier ones answered, and rules_checked holds their names in that order.
C10_EveryApplicableRuleRunsInOrder ==
    cpc = "done" =>
        /\ [k \in DOMAIN execLog |-> execLog[k].index]
              = ApplicableIndices(stored.rules, employeeRole)
        /\ response.rules_checked
              = [k \in DOMAIN execLog |-> stored.rules[execLog[k].index].rule_name]

\* A check has run a rule after an earlier one denied or raised, and has
\* skipped a rule of the bundle
C10_Witness ==
    /\ cpc = "done"
    /\ Len(execLog) >= 2
    /\ execLog[1].raised \/ ~execLog[1].allowed
    /\ Len(execLog) < Len(stored.rules)

----------------------------------------------------------------------------
(* The rules store under re-ingestion and overlapping requests *)

\* C2: a check that begins after an ingestion for its firm name has completed
\* evaluates the bundle of the latest completed ingestion (fresh holds that
\* bundle, and those saved while loadRules is under way).  The executor's own
\* store keeps the bundle it loaded first.
C2_CheckEvaluatesLatestBundle ==
    (cpc \in {"exec", "done"} /\ fresh # {}) => stored \in fresh

\* C7: no load finds a partial document, and outside a write in progress
\* every document is whole.  Bun.write truncates the file in place: a load
\* between the truncation and the end of the write reads a partial text, and
\* a write that fails leaves it behind.
C7_LoadSeesWholeBundle ==
    /\ cpc # "threw"
    /\ pc # "saveWrite" => \A f \in DOMAIN files : files[f].complete

----------------------------------------------------------------------------
(* The lists of the verdict and the failures of a rule *)

\* C11: reasons and policy_refs of a verdict have the same length, the i-th
\* of each coming from the same blocking rule.  A rule that denies without a
\* reason adds a policy_ref and no reason.
C11_ReasonsParallelToRefs ==
    Len(response.reasons) = Len(response.policy_refs)

\* The applicable rules after position i
LaterApplicable(i) ==
    {j \in (i + 1)..Len(stored.rules) : Applicable(stored.rules[j], employeeRole)}

\* C12: when the run of an applicable rule fails, checkCompliance goes on:
\* allowed is false, one reason "Rule <name> execution failed: <detail>" and
\* the rule's policy_reference are appended, and the next applicable rule is
\* run (or the verdict returned after the last).
C12_FailedRuleIsDeniedAndReported ==
    [][ ( /\ cpc = "exec"
          /\ Len(execLog') = Len(execLog) + 1
          /\ execLog'[Len(execLog')].raised )
        => LET rule == stored.rules[checkIdx]
               reasons == response'.reasons
           IN  /\ ~response'.allowed
               /\ Len(reasons) = Len(response.reasons) + 1
               /\ SubSeq(reasons, 1, Len(response.reasons)) = response.reasons
               /\ Len(reasons[Len(reasons)]) > 3
               /\ SubSeq(reasons[Len(reasons)], 1, 3)
                     = <<"Rule ", rule.rule_name, " execution failed: ">>
               /\ response'.policy_refs
                     = Append(response.policy_refs, rule.policy_reference)
               /\ IF LaterApplicable(checkIdx) = {}
                  THEN cpc' = "done"
                  ELSE /\ cpc' = "exec"
                       /\ checkIdx' \in LaterApplicable(checkIdx)
                       /\ \A j \in LaterApplicable(checkIdx) : checkIdx' <= j ]_vars

\* A check has returned after its first rule raised and a later rule ran
C12_Witness ==
    /\ cpc = "done"
    /\ Len(execLog) >= 2
    /\ execLog[1].raised
    /\ response.reasons # <<>>
    /\ SubSeq(response.reasons[1], 1, 1) = <<"Rule ">>
    /\ Len(response.rules_checked) = Len(execLog)

----------------------------------------------------------------------------
(* Which rules a compliance check runs *)

\* C16: a check for a firm that has neither a cache entry nor a document
\* returns allowed = true with empty reasons, policy_refs and rules_checked,
\* and runs no rule.
C16_UnknownFirmIsPermitted ==
    ( /\ cpc = "done"
      /\ checkFirm \notin DOMAIN executorCache
      /\ getFilePath(checkFirm) \notin DOMAIN files )
    => /\ response = [allowed |-> TRUE, reasons |-> <<>>, policy_refs |-> <<>>,
                      rules_checked |-> <<>>]
       /\ execLog = <<>>

\* A check has returned for a firm without a document
C16_Witness ==
    /\ cpc = "done"
    /\ checkFirm \in FirmNames
    /\ files = <<>>
    /\ executorCache = <<>>
    /\ response.allowed

Range(seq) == {seq[k] : k \in DOMAIN seq}

\* C18: a rule of the bundle is run exactly when it is active and its
\* applies_to_roles is empty or holds the employee's role as the same
\* string; a rule with empty applies_to_roles runs for every role; a rule
\* that is skipped leaves nothing in rules_checked, reasons or policy_refs.
C18_RunsIffActiveAndForRole ==
    cpc = "done" =>
        \A i \in DOMAIN stored.rules :
            LET rule == stored.rules[i]
                ran == \E k \in DOMAIN execLog : execLog[k].index = i
            IN  /\ ran <=> ( /\ rule.active
                            /\ \/ rule.applies_to_roles = {}
                               \/ employeeRole \in rule.applies_to_roles )
                /\ ~ran =>
                     /\ rule.rule_name \notin Range(response.rules_checked)
                     /\ rule.policy_reference \notin Range(response.policy_refs)
                     /\ \A k \in DOMAIN response.reasons :
                           rule.rule_name \notin Range(response.reasons[k])

\* A check for the role "analyst" has skipped a rule for "Analyst", and an
\* inactive one, and has run a rule for every role
C18_Witness ==
    /\ cpc = "done"
    /\ employeeRole = "analyst"
    /\ \E i \in DOMAIN stored.rules : stored.rules[i].applies_to_roles = {"Analyst"}
    /\ \E i \in DOMAIN stored.rules : ~stored.rules[i].active
    /\ Len(execLog) = 1
    /\ stored.rules[execLog[1].index].applies_to_roles = {}

----------------------------------------------------------------------------
(* Failures during an ingestion *)

\* C13: a draft that validateAndRefineRule returns unvalidated does not fail
\* the ingestion: processPolicy leaves it out, goes on to the next draft or
\* to saveRules, and a SUCCESS answer reports the bundle without it.  The
\* ingestion fails only where the generator throws or the write fails.
C13_FailedDraftIsLeftOut ==
    /\ [][ (pc = "refineReturn" /\ ~loopResult.validated)
           => /\ validatedRules' = validatedRules
              /\ IF ruleIdx < Len(initialRules)
                 THEN /\ pc' = "while"
                      /\ ruleIdx' = ruleIdx + 1
                      /\ initialRule' = initialRules[ruleIdx + 1]
                 ELSE /\ pc' = "saveOpen"
                      /\ saveData'.rules = validatedRules ]_vars
    /\ [][ pc' = "failed"
           => pc \in {"generateRules", "regenerate", "saveOpen", "saveWrite",
                      "failed"} ]_vars
    /\ []( (pc = "responded" /\ ingestResponse.status = "SUCCESS")
           => /\ saveData.rules = validatedRules
              /\ ingestResponse.rules_deployed = Len(validatedRules)
              /\ files[getFilePath(firmName)] = Document(JSONstringify(saveData)) )

\* An ingestion of two different drafts has answered SUCCESS with the second
\* one only: the first failed every attempt
C13_Witness ==
    /\ pc = "responded"
    /\ ingestResponse.status = "SUCCESS"
    /\ Len(initialRules) = 2
    /\ initialRules[1].rule_id # initialRules[2].rule_id
    /\ Len(saveData.rules) = 1
    /\ saveData.rules[1].rule_id = initialRules[2].rule_id
    /\ totalIterations > Len(saveData.rules[1].validation_history)

\* C14: an ingestion whose first generator call returns no rules answers
\* HTTP 500 and saves no bundle.  processPolicy runs its loop zero times and
\* calls saveRules with an empty list; the endpoint answers SUCCESS.
C14_NoDraftsNoBundle ==
    (pc \in {"saveOpen", "saveWrite", "responded"} /\ Truthy(firmName)
       /\ initialRules = <<>>)
    => /\ files = <<>>
       /\ ingestResponse.status # "SUCCESS"

\* C15: an attempt in which the sandbox could not be created or could not be
\* deleted is a failed attempt.  A failing delete is caught in the finally
\* block and the result of the runs stands, passed = true included.
C15_SandboxFailureFailsAttempt ==
    [][ ( \/ pc = "create" /\ ~sandbox'
          \/ pc = "delete" /\ liveSandboxes' = liveSandboxes )
        => ~validationResult'.passed ]_vars

----------------------------------------------------------------------------
(* What a load returns after a save *)

\* C17: once an ingestion that validated no rule has saved its empty bundle,
\* a following check for the firm returns allowed = true and an empty
\* rules_checked.  An executor that loaded the firm's earlier bundle goes on
\* running the rules of that bundle.
C17_EmptyBundlePermits ==
    (cpc = "done" /\ fresh # {} /\ \A bundle \in fresh : bundle.rules = <<>>)
    => /\ response.allowed
       /\ response.rules_checked = <<>>

\* C19: a completed saveRules(firm, rules, n) leaves in the cache of its
\* store, and in the document, a bundle with the firm_name, policy_version,
\* total_iterations and rules it was given; a load from the document returns
\* that bundle.
C19_LoadReturnsWhatWasSaved ==
    /\ []( (pc = "responded" /\ ingestResponse.status = "SUCCESS")
           => /\ firmName \in DOMAIN pipelineCache
              /\ pipelineCache[firmName].firm_name = firmName
              /\ pipelineCache[firmName].policy_version = PolicyVersion
              /\ pipelineCache[firmName].total_iterations = totalIterations
              /\ pipelineCache[firmName].rules = validatedRules )
    /\ [](\A f \in DOMAIN pipelineCache :
             files[getFilePath(f)].complete
                => JSONparse(files[getFilePath(f)].text) = pipelineCache[f])
    /\ [][ (cpc = "text" /\ cpc' \in {"exec", "done"})
           => \E f \in DOMAIN pipelineCache :
                 /\ getFilePath(f) = getFilePath(checkFirm)
                 /\ stored' = pipelineCache[f]
                 /\ executorCache'[checkFirm] = pipelineCache[f] ]_vars

\* A store without a cache entry has loaded from the document the bundle of
\* one rule that the ingestion saved, under the other spelling of the name
C19_Witness ==
    /\ cpc = "done"
    /\ checkFirm = <<"meridian">>
    /\ <<"Meridian">> \in DOMAIN pipelineCache
    /\ stored = pipelineCache[<<"Meridian">>]
    /\ Len(stored.rules) = 1
    /\ stored.rules[1].validation_history[1].error = Undefined
    /\ Len(execLog) = 1

----------------------------------------------------------------------------
(* The key of a firm name *)

\* Two tokens that are the same word up to letter case
SameWord(t, u) ==
    \/ t = u
    \/ {t, u} = {"ACME", "acme"}
    \/ {t, u} = {"Corp", "corp"}

\* A name without its leading and trailing white space and with every run of
\* white space shortened to one
RECURSIVE Squeeze(_)
Squeeze(name) ==
    IF name = <<>> THEN <<>>
    ELSE IF Head(name) = " "
         THEN IF Tail(name) = <<>> \/ Head(Tail(name)) = " "
              THEN Squeeze(Tail(name))
              ELSE <<" ">> \o Squeeze(Tail(name))
         ELSE <<Head(name)>> \o Squeeze(Tail(name))

Shape(name) ==
    LET squeezed == Squeeze(name)
    IN  IF squeezed # <<>> /\ Head(squeezed) = " " THEN Tail(squeezed) ELSE squeezed

\* The longest name that the name given is compared with
MaxVariantLen == 3

\* Names that differ only in letter case and in the amount of white space
Variants(a, b) ==
    /\ Len(Shape(a)) = Len(Shape(b))
    /\ \A i \in DOMAIN Shape(a) : SameWord(Shape(a)[i], Shape(b)[i])

\* C20: names that differ only in letter case, in white space at the ends
\* and in the length of the inner runs of white space have the same key and
\* the same document path; "ACME Corp" and "acme   corp" have the key
\* "acme_corp"; the key of a key is the key.
C20_VariantsShareKey ==
    /\ [](nameKey # NoKey =>
            /\ \A other \in ListsUpTo(NameTokens, MaxVariantLen) :
                  Variants(nameArg, other) =>
                     /\ normalizeFirmName(other) = nameKey
                     /\ getFilePath(other) = getFilePath(nameArg)
            /\ nameArg \in {<<"ACME", " ", "Corp">>,
                            <<"acme", " ", " ", " ", "corp">>}
                  => nameKey = <<"acme", "_", "corp">>)
    /\ [][nameKey # NoKey => nameKey' = nameKey]_vars

\* "acme   corp" has been normalized, and its key normalized again
C20_Witness ==
    /\ nameArg = <<"acme", "_", "corp">>
    /\ nameKey = <<"acme", "_", "corp">>

----------------------------------------------------------------------------
(* The attempts the refinement loop records and the outcomes of validateRule *)

DefaultFeedback ==
    <<"Validation failed for unspecified reasons. Re-check rule robustness.">>

\* C21: in every ValidationAttempt the refinement loop has appended, passed
\* holds exactly when feedback_to_llm is absent, and a failed attempt carries
\* a feedback string that is not empty.
C21_FeedbackIffFailed ==
    \A k \in DOMAIN currentRule.validation_history :
        LET entry == currentRule.validation_history[k]
        IN  /\ entry.passed <=> entry.feedback_to_llm = Undefined
            /\ ~entry.passed => Len(entry.feedback_to_llm) > 0

\* A failed attempt whose result had no truthy failure field (a functional
\* run that exits non-zero printing blanks) is recorded with the fallback
\* feedback, and a later attempt of the same rule is recorded as passed.
C21_Witness ==
    /\ Len(currentRule.validation_history) = 2
    /\ ~currentRule.validation_history[1].passed
    /\ currentRule.validation_history[1].feedback_to_llm = DefaultFeedback
    /\ currentRule.validation_history[2].passed
    /\ currentRule.validation_history[2].feedback_to_llm = Undefined

FailureFields ==
    {"security_issue", "syntax_error", "runtime_error", "test_failure", "error"}

\* The failure fields a validation result carries
SetFields(v) == { f \in FailureFields : v[f] # Undefined }

\* C22: what validateRule returns has exactly one kind: a passed result
\* carries none of security_issue, syntax_error, runtime_error, test_failure
\* and error, a failed result carries exactly one of them.
C22_OneKind ==
    pc = "recordAttempt" =>
        IF validationResult.passed
        THEN SetFields(validationResult) = {}
        ELSE Cardinality(SetFields(validationResult)) = 1

\* validateRule returned a failed result of kind runtime_error whose text is
\* the empty string.
C22_Witness ==
    /\ pc = "recordAttempt"
    /\ ~validationResult.passed
    /\ validationResult.runtime_error = <<>>
    /\ SetFields(validationResult) = {"runtime_error"}

----------------------------------------------------------------------------
(* The functional phase *)

\* The two sentinels stand in the output, the end after the start
SentinelsPresent(stdout) ==
    \E i, j \in DOMAIN stdout :
        i < j /\ stdout[i] = RULE_OUTPUT /\ stdout[j] = RULE_OUTPUT_END

\* What stands between the first start sentinel and the end sentinel after
\* it, without the white space around it
SentinelContent(stdout) ==
    LET i == CHOOSE k \in DOMAIN stdout :
                 /\ stdout[k] = RULE_OUTPUT
                 /\ \A h \in 1..(k - 1) : stdout[h] # RULE_OUTPUT
        j == CHOOSE k \in (i + 1)..Len(stdout) :
                 /\ stdout[k] = RULE_OUTPUT_END
                 /\ \A h \in (i + 1)..(k - 1) : stdout[h] # RULE_OUTPUT_END
    IN  SelectSeq(SubSeq(stdout, i + 1, j - 1), LAMBDA t : t # " ")

\* The content is a JSON object with a boolean allowed
HasBooleanAllowed(content) ==
    content \in {<<"{allowed:true}">>, <<"{allowed:false}">>}

----------------------------------------------------------------------------
(* processPolicy: the for loop over the drafts *)

\* The endpoint answered SUCCESS for the bundle in saveData
Saved == pc = "responded" /\ ingestResponse = IngestSuccess(saveData)

\* C24: total_iterations of the saved bundle is the sum of the iteration
\* counts the refinement loop returned for the drafts, dropped drafts
\* included: the sum starts at 0, every return of the loop adds its
\* iterations, nothing else changes it, and saveRules gets the sum. A single
\* draft failing on attempt 1 and passing on attempt 2 gives 2.
C24_TotalIsSumOfIterations ==
    /\ [][ /\ (pc = "generateRules" /\ pc' # "failed") => totalIterations' = 0
           /\ pc = "refineReturn" =>
                 totalIterations' = totalIterations + loopResult.iterations
           /\ pc \notin {"generateRules", "refineReturn", "responded"} =>
                 UNCHANGED totalIterations
           /\ pc' = "saveOpen" =>
                 saveData'.total_iterations = totalIterations' ]_vars
    /\ [](Saved => /\ saveData.total_iterations = totalIterations
                   /\ ingestResponse.total_iterations = totalIterations)
    /\ []((/\ Saved
           /\ Len(initialRules) = 1
           /\ Len(saveData.rules) = 1
           /\ Len(saveData.rules[1].validation_history) = 2
           /\ ~saveData.rules[1].validation_history[1].passed
           /\ saveData.rules[1].validation_history[2].passed)
              => saveData.total_iterations = 2)

\* Two drafts, one dropped after two attempts and one accepted on its second
\* attempt: the saved bundle has one rule and total_iterations 4.
C24_Witness ==
    /\ Saved
    /\ Len(initialRules) = 2
    /\ Len(saveData.rules) = 1
    /\ Len(saveData.rules[1].validation_history) = 2
    /\ saveData.total_iterations = 4

\* The rule_ids of a list of rules
RuleIds(rules) == [k \in DOMAIN rules |-> rules[k].rule_id]

RECURSIVE IsSubsequence(_, _)
\* a is b with some positions left out
IsSubsequence(a, b) ==
    IF a = <<>> THEN TRUE
    ELSE IF b = <<>> THEN FALSE
    ELSE IF Head(a) = Head(b) THEN IsSubsequence(Tail(a), Tail(b))
    ELSE IsSubsequence(a, Tail(b))

\* A refinement is between its call and the handling of its return
Refining ==
    pc \in {"while", "create", "syntax", "tests", "delete", "recordAttempt",
            "regenerate", "refineReturn"}

\* C25: the drafts are refined one after the other in the generator's order:
\* the first refinement is that of draft 1, the refinement of draft i+1 begins
\* only in the step that handles the return of the refinement of draft i, the
\* rule under refinement is always the draft at the loop position, and the
\* rules kept so far, like the saved rules, are the drafts before that
\* position, in order, with some left out.
C25_SequentialInOrder ==
    /\ [][ /\ (pc = "generateRules" /\ pc' = "while") =>
                 ruleIdx' = 1 /\ initialRule' = initialRules'[1]
           /\ (Refining /\ (ruleIdx' # ruleIdx \/ initialRule' # initialRule)) =>
                 /\ pc = "refineReturn"
                 /\ loopResult.rule.rule_id = initialRules[ruleIdx].rule_id
                 /\ ruleIdx' = ruleIdx + 1
                 /\ initialRule' = initialRules[ruleIdx + 1]
                 /\ pc' = "while"
           /\ (pc = "refineReturn" /\ pc' # "while") =>
                 ruleIdx = Len(initialRules) /\ pc' = "saveOpen" ]_vars
    /\ [](Refining =>
             /\ ruleIdx \in DOMAIN initialRules
             /\ initialRule = initialRules[ruleIdx]
             /\ currentRule.rule_id = initialRule.rule_id
             /\ IsSubsequence(RuleIds(validatedRules),
                              RuleIds(SubSeq(initialRules, 1, ruleIdx - 1))))
    /\ [](pc \in {"saveOpen", "saveWrite"} \/ Saved =>
             IsSubsequence(RuleIds(saveData.rules), RuleIds(initialRules)))

\* Two drafts with different rule_ids were both accepted and saved.
C25_Witness ==
    /\ Saved
    /\ Len(initialRules) = 2
    /\ initialRules[1].rule_id # initialRules[2].rule_id
    /\ RuleIds(saveData.rules) = RuleIds(initialRules)

\* C29: rule_id is unique within a persisted bundle, whatever drafts the
\* generator returned: no two rules of the bundle given to saveRules, or of
\* the bundle reported saved, have the same rule_id.
C29_RuleIdsUnique ==
    (pc \in {"saveOpen", "saveWrite"} \/ Saved) =>
        \A i, j \in DOMAIN saveData.rules :
            saveData.rules[i].rule_id = saveData.rules[j].rule_id => i = j

----------------------------------------------------------------------------
(* Overlapping ingestions of one firm *)

\* Both saveRules calls have returned
BothReturned == Len(returned) = Cardinality(Ingestions)

\* The bundle of the call that returned last
LastReturned == saveCalls[returned[Len(returned)]].data

\* C26: once two overlapping ingestions of a firm have both completed, the
\* stored bundle is that of the ingestion whose save completed last: the
\* document is the whole text of that bundle, and a loadRules that answers
\* afterwards, from the cache or from the document, returns that bundle.
C26_LastCompletedSaveWins ==
    /\ [](BothReturned =>
             files[getFilePath(<<"Meridian">>)] =
                Document(JSONstringify(LastReturned)))
    /\ [][ (/\ BothReturned
            /\ cpc \in {"idle", "text"}
            /\ cpc' \notin {"idle", "text", "exists"}
            /\ checkFirm' = <<"Meridian">>) =>
               /\ cpc' \in {"exec", "done"}
               /\ stored' = LastReturned ]_vars

----------------------------------------------------------------------------
(* The python bridge *)

\* a is the beginning of b
IsPrefix(a, b) == Len(a) <= Len(b) /\ a = SubSeq(b, 1, Len(a))

\* C27: runPythonCode tries the configured binary and then python3; the
\* fallback is tried only when the binary before it was not found; any other
\* failure (non-zero exit, timeout) aborts with that failure and without
\* another spawn; and when no candidate is found the call fails with the
\* 'Python executable not found' error.
C27_FallbackOnlyWhenNotFound ==
    /\ [](bridgePc # "idle" =>
             /\ candidates = ArrayFromSet(<<configured, "python3">>)
             /\ IsPrefix(spawned, candidates))
    /\ [][ (Len(spawned') > Len(spawned) /\ spawned # <<>>) =>
               child.bin \notin installed ]_vars
    /\ [][ (/\ bridgePc = "await" /\ bridgePc' # "await"
            /\ promise.state = "rejected"
            /\ child.bin \in installed) =>
               bridgePc' = "done" /\ bridgeOutcome' = promise ]_vars
    /\ [](bridgePc = "done" /\ (\A k \in DOMAIN candidates :
                                   candidates[k] \notin installed) =>
             bridgeOutcome = NotFoundError(candidates))

\* C28: with a timeout set, a timer that fires finds the child running and
\* the promise pending, kills the child with SIGKILL and rejects with the
\* timeout error; a settled promise is never settled again, whatever close or
\* error event follows; a close with exit code 0 while the timer is set
\* resolves with the captured stdout; and a call whose timer fired fails with
\* the timeout error.
C28_TimeoutSettlesOnce ==
    /\ [][ (timeoutHandle = "armed" /\ timeoutHandle' = "fired") =>
               /\ child.state = "running"
               /\ promise.state = "pending"
               /\ child'.state = "killed" /\ child'.signal = "SIGKILL"
               /\ promise' = TimeoutError ]_vars
    /\ [][ promise.state # "pending" =>
               \/ promise' = promise
               \/ bridgePc = "loop" /\ promise' = Pending ]_vars
    /\ [][ (/\ timeoutHandle = "armed"
            /\ child'.state = "closed" /\ child'.exitCode = 0) =>
               /\ promise' = Resolved(child.stdout)
               /\ timeoutHandle' = "cleared" ]_vars
    /\ [](bridgePc = "done" /\ timeoutHandle = "fired" =>
             bridgeOutcome = TimeoutError)

\* The timer fired, the killed child then closed with exit code 0 after
\* having written its result, and the call failed with the timeout error.
C28_Witness ==
    /\ bridgePc = "done"
    /\ timeoutHandle = "fired"
    /\ child.state = "closed"
    /\ child.exitCode = 0
    /\ child.stdout # <<>>
    /\ bridgeOutcome = TimeoutError

----------------------------------------------------------------------------
(* The compliance-check endpoint *)

\* A field that is missing, or empty once the white space around it is gone
Blank(field) == field = Undefined \/ \A k \in DOMAIN field : field[k] = " "

\* C30: a compliance-check request in which firm_name, employee_id or query
\* is missing or empty after trimming is answered with HTTP 400 and code
\* INVALID_REQUEST in the step that reads it, and the query parser, the
\* employee lookup, the rules store and the rule runner are never called.
C30_InvalidRequestRejectedFirst ==
    (/\ rpc # "idle"
     /\ checkRequest \in CheckBodies
     /\ \/ Blank(checkRequest.firm_name)
        \/ Blank(checkRequest.employee_id)
        \/ Blank(checkRequest.query)) =>
        /\ rpc = "responded"
        /\ checkAnswer = [http |-> 400, status |-> "ERROR", code |-> "INVALID_REQUEST"]
        /\ routeCalls = <<>>
        /\ cpc = "idle"
        /\ executorCache = <<>>
        /\ execLog = <<>>

\* A request whose query holds white space only was answered with 400.
C30_Witness ==
    /\ rpc = "responded"
    /\ checkRequest.firm_name = <<" ", "Meridian", " ">>
    /\ checkRequest.employee_id = <<"EMP006">>
    /\ checkRequest.query = <<" ">>
    /\ checkAnswer.code = "INVALID_REQUEST"
    /\ routeCalls = <<>>

----------------------------------------------------------------------------
(* The static screen *)

\* A token of the code that is the denylist entry up to letter case
SameSnippet(tok, snippet) ==
    \/ tok = snippet
    \/ tok = "IMPORT OS" /\ snippet = "import os"
    \/ tok = "Import Subprocess" /\ snippet = "import subprocess"
    \/ tok = "EVAL(" /\ snippet = "eval("

Contains(code, snippet) == \E i \in DOMAIN code : SameSnippet(code[i], snippet)

\* validateRule has just screened the code of the current rule
Screened == pc \in {"create", "recordAttempt"} /\ sandboxOps = <<>>

\* C31: checkSecurity rejects a code exactly when, letter case aside, it
\* contains an entry of the denylist, and the pattern it reports is the
\* first entry of the list that the code contains.
C31_RejectsIffDenylisted ==
    Screened =>
        LET code == currentRule.python_code
            denied == \E k \in DOMAIN DANGEROUS_SNIPPETS :
                         Contains(code, DANGEROUS_SNIPPETS[k])
        IN  /\ denied <=> pc = "recordAttempt"
            /\ denied <=> validationResult.security_issue # Undefined
            /\ denied <=> ~checkSecurity(code).safe
            /\ \A k \in DOMAIN DANGEROUS_SNIPPETS :
                  ( /\ Contains(code, DANGEROUS_SNIPPETS[k])
                    /\ \A j \in DOMAIN DANGEROUS_SNIPPETS :
                          j < k => ~Contains(code, DANGEROUS_SNIPPETS[j]) )
                  => validationResult.security_issue =
                        <<"Code contains insecure pattern: ", DANGEROUS_SNIPPETS[k]>>

\* A code with EVAL( before Import Subprocess was rejected for
\* "import subprocess", the earlier entry of the list
C31_Witness ==
    /\ Screened
    /\ currentRule.python_code = <<"EVAL(", "Import Subprocess">>
    /\ validationResult.security_issue =
          <<"Code contains insecure pattern: ", "import subprocess">>

----------------------------------------------------------------------------
(* What a regeneration keeps of the rule under refinement *)

\* The fields of a rule that describe it, and its code
DescriptiveFields ==
    {"rule_name", "policy_reference", "python_code", "applies_to_roles", "active"}

\* C32: across regenerations the rule under refinement keeps the rule_id
\* of the initial draft and the validation history built so far, whose
\* entries stay as they were recorded, in order; its code and descriptive
\* fields are those of the first rule of the latest regeneration, and the
\* rule returned is this rule.
C32_KeepsIdAndHistory ==
    /\ [](currentRule.rule_id = initialRule.rule_id)
    /\ [](pc = "refineReturn" => loopResult.rule = currentRule)
    /\ [][ LET before == currentRule.validation_history
               after == currentRule'.validation_history
           IN  IF pc = "recordAttempt"
               THEN Len(after) = Len(before) + 1 /\ SubSeq(after, 1, Len(before)) = before
               ELSE after = before ]_vars
    /\ [][ IF pc = "regenerate" /\ pc' = "while"
           THEN /\ regenerated'.rules # <<>>
                /\ \A f \in DescriptiveFields :
                      currentRule'[f] = regenerated'.rules[1][f]
           ELSE \A f \in DescriptiveFields : currentRule'[f] = currentRule[f] ]_vars

\* The draft "earnings_blackout" was regenerated twice and is returned with
\* its rule_id, the name and code of the other draft and three entries
C32_Witness ==
    /\ pc = "refineReturn"
    /\ initialRule.rule_id = "earnings_blackout"
    /\ initialRule.python_code = CodeSafe
    /\ loopResult.rule.rule_id = "earnings_blackout"
    /\ loopResult.rule.rule_name = "Pre-approval"
    /\ loopResult.rule.python_code = CodeUnsafe
    /\ Len(loopResult.rule.validation_history) = MaxIterations
    /\ loopResult.rule.validation_history[1].error = SandboxError
    /\ loopResult.rule.validation_history[2].error # SandboxError

----------------------------------------------------------------------------
(* A regeneration without rules *)

\* C33: when regenerateRule returns an empty list the loop ends in that
\* step, with no further call of the validator, and returns
\* validated = false, the rule that just failed and the number of
\* attempts made so far.
C33_EmptyRegenerationStops ==
    /\ [][ (pc = "regenerate" /\ regenerated' = Generated(<<>>)) =>
             /\ pc' = "refineReturn"
             /\ loopResult' = LoopReturn(FALSE, currentRule, attempt)
             /\ loopResult'.iterations = validatorCalls
             /\ Len(currentRule.validation_history) = attempt
             /\ ~currentRule.validation_history[attempt].passed
             /\ validatorCalls' = validatorCalls ]_vars
    /\ [][pc # "refineReturn"]_vars

\* With three attempts allowed the loop has returned after the first: the
\* regeneration that followed it gave no rule
C33_Witness ==
    /\ pc = "refineReturn"
    /\ maxIterationsPerRule = MaxIterations
    /\ ~loopResult.validated
    /\ loopResult.iterations = 1
    /\ validatorCalls = 1
    /\ context # NoContext
    /\ loopResult.rule.python_code = initialRule.python_code

----------------------------------------------------------------------------
(* The order of validator and generator calls in one refinement *)

\* The last entry of the history of the rule under refinement
LastEntry == currentRule.validation_history[Len(currentRule.validation_history)]

\* C34: in one refinement the calls of validateRule and regenerateRule
\* alternate, the validator first: regenerateRule is called only right
\* after a validation that failed, never after one that passed and never
\* after attempt maxIterationsPerRule (so at most maxIterationsPerRule - 1
\* times), and its request carries the code and the error of the attempt
\* that just failed.
C34_ValidatorAndGeneratorAlternate ==
    /\ [](pc = "while" /\ attempt = 0 => validatorCalls = 0 /\ context = NoContext)
    /\ [][ pc' = "regenerate" =>
             /\ pc = "recordAttempt"
             /\ ~validationResult.passed
             /\ validatorCalls = attempt
             /\ attempt <= maxIterationsPerRule - 1
             /\ context'.code = currentRule.python_code
             /\ context'.error =
                   Or(ConsolidatedError(validationResult), <<"Unknown validation error">>) ]_vars
    /\ [](pc = "regenerate" =>
             /\ ~LastEntry.passed
             /\ LastEntry.attempt_number = attempt
             /\ context.code = currentRule.python_code
             /\ context.error = Or(LastEntry.error, <<"Unknown validation error">>))
    /\ [][ pc = "regenerate" =>
             /\ pc' \in {"while", "refineReturn", "failed"}
             /\ validatorCalls' = validatorCalls ]_vars
    /\ [][ pc = "while" =>
             /\ validatorCalls' = validatorCalls + 1
             /\ pc' \in {"create", "recordAttempt"} ]_vars
    /\ [][ pc = "recordAttempt" /\ validationResult.passed => pc' = "refineReturn" ]_vars

\* The second regeneration request of a refinement carries the code the
\* first regeneration gave and the reason the screen rejected it for, not
\* the code of the initial draft
C34_Witness ==
    /\ pc = "regenerate"
    /\ attempt = 2
    /\ validatorCalls = 2
    /\ maxIterationsPerRule = MaxIterations
    /\ initialRule.python_code = CodeSafe
    /\ context.code = CodeUnsafe
    /\ context.error = <<"Code contains insecure pattern: ", "import os">>
    /\ currentRule.validation_history[1].error = <<"Unknown syntax error">>

----------------------------------------------------------------------------
(* An exception of the generator *)

\* C35: when the generator throws, on the initial call or in the
\* regeneration of any draft, processPolicy ends without a call of
\* saveRules: the document and the cache entry the firm had before are
\* unchanged, the rules validated so far are not persisted, and the
\* endpoint answers with an error.
C35_GeneratorThrowSavesNothing ==
    /\ [][ (pc = "regenerate" /\ regenerated'.threw) =>
             /\ pc' = "failed"
             /\ saveData' = NoStored
             /\ UNCHANGED <<storeVars, validatedRules>> ]_vars
    /\ [][ (pc = "generateRules" /\ pc' = "failed") =>
             /\ saveData' = NoStored
             /\ UNCHANGED storeVars ]_vars
    /\ [][ (pc = "failed" /\ saveData = NoStored) =>
             /\ pc' = "responded"
             /\ ingestResponse' = IngestError(500)
             /\ saveData' = NoStored
             /\ UNCHANGED storeVars ]_vars
    /\ [](saveData = NoStored => files = EarlierFiles /\ pipelineCache = EarlierCache)
    /\ [][pc # "responded"]_vars

\* The first draft was validated and the regeneration of the second threw:
\* the endpoint has answered 500 and the store holds the earlier bundle
C35_Witness ==
    /\ pc = "responded"
    /\ regenerated.threw
    /\ ruleIdx = 2
    /\ Len(validatedRules) = 1
    /\ saveData = NoStored
    /\ ingestResponse = IngestError(500)
    /\ files = EarlierFiles
    /\ pipelineCache = EarlierCache

----------------------------------------------------------------------------
(* The keys of the cache and of the documents *)

\* C36: for firm names with the same normalized name, loadRules of one
\* name after a completed saveRules of the other returns the bundle saved
\* last under that normalized name, whatever saves and loads came before
\* on the same store.
C36_LoadReturnsLatestOfKey ==
    [][ ( /\ cpc = "loadRules"
          /\ saveData # NoStored
          /\ normalizeFirmName(saveData.firm_name) = normalizeFirmName(checkFirm) )
        => /\ stored'.rules = saveData.rules
           /\ stored'.total_iterations = saveData.total_iterations ]_vars

----------------------------------------------------------------------------
(* Cache and document after overlapping saves *)

\* C37: once the overlapping saveRules calls for a firm on one store have
\* all returned, the cache entry of the firm and the document hold the same
\* bundle.
C37_CacheMatchesDocument ==
    BothReturned =>
        files[getFilePath(<<"Meridian">>)] =
            Document(JSONstringify(pipelineCache[<<"Meridian">>]))

----------------------------------------------------------------------------
(* The one save of an ingestion *)

\* C38: an ingestion that completes calls saveRules exactly once, after
\* the refinement of its last draft has returned; before that call the
\* ingestion writes no document and sets no cache entry.
C38_OneSaveAfterLastRefinement ==
    /\ [][ pc' = "saveOpen" =>
             /\ saveData = NoStored
             /\ saveData' # NoStored
             /\ \/ pc = "generateRules" /\ initialRules' = <<>>
                \/ /\ pc = "refineReturn"
                   /\ ruleIdx = Len(initialRules)
                   /\ loopResult.rule.rule_id = initialRules[Len(initialRules)].rule_id ]_vars
    /\ [][saveData # NoStored => saveData' = saveData]_vars
    /\ [][ storeVars' # storeVars =>
             saveData # NoStored /\ pc \in {"saveOpen", "saveWrite"} ]_vars
    /\ [](saveData = NoStored => files = EarlierFiles /\ pipelineCache = EarlierCache)
    /\ [](pc = "responded" /\ ingestResponse.status = "SUCCESS" =>
             /\ saveData # NoStored
             /\ pipelineCache[firmName] = saveData
             /\ files[getFilePath(firmName)] = Document(JSONstringify(saveData)))

\* An ingestion of two drafts has completed: the bundle it saved after the
\* second refinement holds the first draft's rule
C38_Witness ==
    /\ pc = "responded"
    /\ ingestResponse.status = "SUCCESS"
    /\ Len(initialRules) = 2
    /\ ruleIdx = 2
    /\ ~loopResult.validated
    /\ Len(saveData.rules) = 1
    /\ pipelineCache[firmName] = saveData
    /\ files # EarlierFiles

----------------------------------------------------------------------------
(* total_iterations and the attempts of the rules kept *)

RECURSIVE SumAttempts(_)
SumAttempts(rules) ==
    IF rules = <<>> THEN 0
    ELSE Head(rules).generation_attempt + SumAttempts(Tail(rules))

\* A bundle whose total_iterations covers the attempts of its rules
CoversAttempts(bundle) == bundle.total_iterations >= SumAttempts(bundle.rules)

\* C39: in every saved bundle total_iterations is at least the sum of
\* generation_attempt over its rules, and equal to it exactly when the
\* ingestion dropped no draft after an attempt.
C39_TotalCoversAttempts ==
    /\ saveData # NoStored =>
          /\ CoversAttempts(saveData)
          /\ \A k \in DOMAIN saveData.rules :
                saveData.rules[k].generation_attempt =
                   Len(saveData.rules[k].validation_history)
          /\ saveData.total_iterations = SumAttempts(saveData.rules)
                <=> Len(saveData.rules) = Len(initialRules)
    /\ \A path \in DOMAIN files :
          files[path].complete => CoversAttempts(JSONparse(files[path].text))
    /\ \A name \in DOMAIN pipelineCache : CoversAttempts(pipelineCache[name])

\* Both drafts were kept, the second on its second attempt: the saved
\* bundle has total_iterations 3, the sum of the attempts of its rules
C39_Witness ==
    /\ Saved
    /\ Len(initialRules) = 2
    /\ Len(saveData.rules) = 2
    /\ saveData.rules[1].generation_attempt = 1
    /\ saveData.rules[2].generation_attempt = 2
    /\ saveData.total_iterations = 3
    /\ JSONparse(files[getFilePath(firmName)].text).total_iterations = 3

----------------------------------------------------------------------------
(* Failures of the sandbox client inside validateRule *)

\* The delete calls of the current validateRule
Deletes == Cardinality({i \in DOMAIN sandboxOps : sandboxOps[i] = "delete"})

\* validateRule has returned after client.create failed
CreateFailed == pc = "recordAttempt" /\ sandboxOps = <<"create">> /\ ~sandbox

\* validateRule has returned a failed outcome after a run in its sandbox
RunFailed == pc = "recordAttempt" /\ sandbox /\ ~validationResult.passed

\* No failure of create, of a run or of delete leaves validateRule as an
\* exception: a failing create gives a failed outcome with error and no
\* delete call, a failing run a failed outcome, and a failing delete leaves
\* the outcome as it was.
SandboxFailuresContained ==
    /\ [][ (pc \in {"create", "syntax", "tests", "delete"}) =>
             pc' \in {"syntax", "tests", "delete", "recordAttempt"} ]_vars
    /\ [](CreateFailed =>
             /\ ~validationResult.passed
             /\ validationResult.error = SandboxError
             /\ Deletes = 0)
    /\ [][ /\ (pc = "syntax" /\ pc' # "tests") =>
                  /\ ~validationResult'.passed
                  /\ \/ validationResult'.error = SandboxError
                     \/ validationResult'.syntax_error # Undefined
           /\ (pc = "tests" /\ execResult'.threw) =>
                  validationResult' = VResult(FALSE, "error", execResult'.message)
           /\ (pc = "tests" /\ ~execResult'.threw /\ execResult'.exitCode # 0) =>
                  /\ ~validationResult'.passed
                  /\ validationResult'.runtime_error # Undefined ]_vars
    /\ [][ pc = "delete" =>
             /\ pc' = "recordAttempt"
             /\ validationResult' = validationResult ]_vars

\* C40 as stated: validateRule raises for no failure of the sandbox
\* client; a failing create gives a failed outcome with error set and no
\* delete call, a failing syntax or functional run a failed outcome and one
\* delete call, and a failing delete is swallowed and leaves the outcome
\* unchanged.
C40_ClientFailuresContained ==
    /\ SandboxFailuresContained
    /\ [](RunFailed => Deletes = 1)

\* C40 amended: as above, where a failing run is followed by one delete
\* call unless DAYTONA_PRESERVE_SANDBOXES is set, and by none when it is.
C40_ContainedUnlessPreserved ==
    /\ SandboxFailuresContained
    /\ [](RunFailed => Deletes = IF preserveSandbox THEN 0 ELSE 1)

\* With the preserve flag set the functional run threw: validateRule has
\* returned the failed outcome and has not called delete
C40_Witness ==
    /\ pc = "recordAttempt"
    /\ preserveSandbox
    /\ sandboxOps = <<"create", "codeRun", "codeRun">>
    /\ execResult.threw
    /\ validationResult = VResult(FALSE, "error", SandboxError)
    /\ liveSandboxes = 1

====
